---- MODULE Spec2Model ----
(***************************************************************************)
(* diosk: a terminal Gemini client.  The model covers the navigation       *)
(* state (src/src/state.rs), the input loop (src/src/input.rs), the worker *)
(* loop (src/src/worker.rs), the protocol transaction (src/src/gemini.rs)  *)
(* and the page renderer (src/src/terminal.rs); the earlier single-file    *)
(* orchestrator of src/src/main.rs is modelled by the specification        *)
(* SpecMain.  SpecTx follows single navigations for every class of server  *)
(* answer; SpecCall applies StatusCode::parse, State::qualify_url and      *)
(* Line::parse to sets of arguments.                                       *)
(*                                                                         *)
(* Strings are sequences of one-character strings.  Option values are      *)
(* sequences of length 0 (None) or 1 (Some).                               *)
(***************************************************************************)
EXTENDS Integers, Sequences, FiniteSets, TLC

\* ------------------------------------------------------------------ bounds

\* Navigations dispatched in one behaviour (each spawns one thread).
MaxTasks == 2
\* The user stops pressing `j` once the active line index reaches this
MaxIndex == 3

VARIABLES
    state,      \* the State behind Arc<Mutex<State>>
    screen,     \* what the last render drew (None before the first render)
    lock,       \* the thread holding the Mutex: "none", "input" or "worker"
    poisoned,   \* a thread panicked while holding the Mutex
    chan,       \* the events in the mpsc channel, oldest first
    rx,         \* the Receiver has not been dropped
    tasks,      \* the threads spawned by State::request, in spawn order
    pcIn,       \* the input loop: "read", "handle", "stopped", "panicked"
    pcW,        \* the worker loop: "recv", "apply", "stopped", "panicked"
    wEvent,     \* the event the worker loop has received and is applying
    sent,       \* every event put on the channel, in order
    consumed,   \* every event the worker loop has received, in order
    call        \* a function under check, its arguments and what it returned

\* The variables of the running program
program == <<state, screen, lock, poisoned, chan, rx, tasks, pcIn, pcW, wEvent,
             sent, consumed>>

vars == <<state, screen, lock, poisoned, chan, rx, tasks, pcIn, pcW, wEvent,
          sent, consumed, call>>

\* ------------------------------------------------------- string helpers

None == <<>>
Some(x) == <<x>>

CR == "\r"
LF == "\n"
TAB == "\t"
SP == " "

Whitespace == {SP, TAB, CR, LF}

\* Index of the first element of s satisfying P, 0 when there is none.
FirstIdx(s, P(_)) ==
    IF \E i \in 1..Len(s) : P(s[i])
    THEN CHOOSE i \in 1..Len(s) : P(s[i]) /\ \A j \in 1..(i - 1) : ~P(s[j])
    ELSE 0

\* Index of the last element of s satisfying P, 0 when there is none.
LastIdx(s, P(_)) ==
    IF \E i \in 1..Len(s) : P(s[i])
    THEN CHOOSE i \in 1..Len(s) : P(s[i]) /\ \A j \in (i + 1)..Len(s) : ~P(s[j])
    ELSE 0

Drop(s, n) == SubSeq(s, n + 1, Len(s))
Take(s, n) == SubSeq(s, 1, IF n < Len(s) THEN n ELSE Len(s))

StartsWith(s, p) == Len(s) >= Len(p) /\ SubSeq(s, 1, Len(p)) = p

\* str::trim
IsWs(c) == c \in Whitespace
NotWs(c) == c \notin Whitespace
trim(s) ==
    IF FirstIdx(s, NotWs) = 0 THEN <<>>
    ELSE SubSeq(s, FirstIdx(s, NotWs), LastIdx(s, NotWs))

\* The value of In for e: e is what a `let` of the code binds
Bind(e, In(_)) == In(e)
Bind2(e1, e2, In(_, _)) == In(e1, e2)

\* ------------------------------------------------------------------- Url
(* url::Url for the URLs the model's servers and documents use: a scheme,  *)
(* an optional host, a path, an optional query and an optional fragment.   *)
(* The inputs of the model carry no userinfo, port, percent-escape or      *)
(* dot-segment.                                                            *)

Alpha == {"a", "b", "c", "d", "e", "f", "g", "h", "i", "j", "k", "l", "m",
          "n", "o", "p", "q", "r", "s", "t", "u", "v", "w", "x", "y", "z"}
Digit == {"0", "1", "2", "3", "4", "5", "6", "7", "8", "9"}
SchemeChar == Alpha \cup Digit \cup {"+", "-", "."}

\* Code points url rejects in an opaque host.
ForbiddenHost == {SP, "<", ">", "[", "]", "^", "|", "\\"}

NotSchemeChar(c) == c \notin SchemeChar
IsAuthorityEnd(c) == c \in {"/", "?", "#"}
IsPathEnd(c) == c \in {"?", "#"}
IsHash(c) == c = "#"
NotTabOrNewline(c) == c \notin {TAB, CR, LF}
NotSpace(c) == c # SP

\* Leading and trailing C0 control or space stripped, tab and newline removed.
UrlInput(s) ==
    Bind(SelectSeq(s, NotTabOrNewline), LAMBDA t :
         IF FirstIdx(t, NotSpace) = 0 THEN <<>>
         ELSE SubSeq(t, FirstIdx(t, NotSpace), LastIdx(t, NotSpace)))

\* Path, query and fragment of what follows the authority.
PathOf(r) == IF FirstIdx(r, IsPathEnd) = 0 THEN r ELSE Take(r, FirstIdx(r, IsPathEnd) - 1)
NoFragment(r) == IF FirstIdx(r, IsHash) = 0 THEN r ELSE Take(r, FirstIdx(r, IsHash) - 1)
QueryOf(r) ==
    Bind(Drop(NoFragment(r), Len(PathOf(r))), LAMBDA q :
         IF q = <<>> THEN None ELSE Some(Drop(q, 1)))
FragmentOf(r) ==
    IF FirstIdx(r, IsHash) = 0 THEN None ELSE Some(Drop(r, FirstIdx(r, IsHash)))

\* Result values; a panic is the third outcome of a call.
Ok(v) == [ok |-> TRUE, panic |-> FALSE, v |-> v]
Err(e) == [ok |-> FALSE, panic |-> FALSE, e |-> e]
Panic(e) == [ok |-> FALSE, panic |-> TRUE, e |-> e]

\* The authority: what precedes the first of / ? #
AuthorityOf(a) ==
    IF FirstIdx(a, IsAuthorityEnd) = 0 THEN a ELSE Take(a, FirstIdx(a, IsAuthorityEnd) - 1)

\* Url::parse
Url_parse(input) ==
    Bind(UrlInput(input), LAMBDA s :
    Bind(FirstIdx(s, NotSchemeChar), LAMBDA i :
         IF ~(i > 1 /\ s[1] \in Alpha /\ s[i] = ":")
         THEN Err("RelativeUrlWithoutBase")
         ELSE Bind2(Take(s, i - 1), Drop(s, i), LAMBDA scheme, rest :
              IF StartsWith(rest, <<"/", "/">>)
              THEN Bind(Drop(rest, 2), LAMBDA a :
                   Bind(AuthorityOf(a), LAMBDA authority :
                   Bind(Drop(a, Len(authority)), LAMBDA after :
                        IF \E k \in 1..Len(authority) : authority[k] \in ForbiddenHost
                        THEN Err("InvalidDomainCharacter")
                        ELSE Ok([scheme |-> scheme,
                                 host |-> IF authority = <<>> THEN None
                                          ELSE Some(authority),
                                 path |-> PathOf(after),
                                 query |-> QueryOf(after),
                                 fragment |-> FragmentOf(after),
                                 cannot_be_a_base |-> FALSE]))))
              ELSE Ok([scheme |-> scheme,
                       host |-> None,
                       path |-> PathOf(rest),
                       query |-> QueryOf(rest),
                       fragment |-> FragmentOf(rest),
                       cannot_be_a_base |-> ~StartsWith(rest, <<"/">>)]))))

IsSlash(c) == c = "/"

\* Url::join for a reference without a scheme
Url_join(base, input) ==
    Bind(UrlInput(input), LAMBDA r :
         IF base.cannot_be_a_base THEN Err("RelativeUrlWithCannotBeABaseBase")
         ELSE IF r = <<>> THEN Ok([base EXCEPT !.fragment = None])
         ELSE IF r[1] = "#" THEN Ok([base EXCEPT !.fragment = FragmentOf(r)])
         ELSE IF r[1] = "?"
              THEN Ok([base EXCEPT !.query = QueryOf(r), !.fragment = FragmentOf(r)])
         ELSE IF r[1] = "/"
              THEN Ok([base EXCEPT !.path = PathOf(r), !.query = QueryOf(r),
                                   !.fragment = FragmentOf(r)])
         ELSE Ok([base EXCEPT !.path = Take(base.path, LastIdx(base.path, IsSlash))
                                          \o (IF base.path = <<>> /\ base.host # None
                                              THEN <<"/">> ELSE <<>>)
                                          \o PathOf(r),
                              !.query = QueryOf(r),
                              !.fragment = FragmentOf(r)]))

\* Url::set_query(None), Url::set_fragment(None)
set_query_none(url) == [url EXCEPT !.query = None]
set_fragment_none(url) == [url EXCEPT !.fragment = None]

\* Url::host_str
host_str(url) == url.host

\* ------------------------------------------------------------ StatusCode

IsSP(c) == c = SP
IsSemicolon(c) == c = ";"
NotTokenChar(c) == c \notin (Alpha \cup Digit \cup {"+", "-", "."})

Text == <<"t", "e", "x", "t">>
Gemini == <<"g", "e", "m", "i", "n", "i">>
Utf8 == <<"u", "t", "f", "-", "8">>
CharsetEq == <<"c", "h", "a", "r", "s", "e", "t", "=">>

\* str::parse::<Mime> of "type/subtype" with an optional charset parameter
Mime_parse(s) ==
    Bind(FirstIdx(s, IsSemicolon), LAMBDA k :
    Bind2(IF k = 0 THEN s ELSE Take(s, k - 1),
          IF k = 0 THEN <<>> ELSE trim(Drop(s, k)), LAMBDA essence, param :
    Bind(FirstIdx(essence, IsSlash), LAMBDA sl :
    Bind2(Take(essence, sl - 1), Drop(essence, sl), LAMBDA ty, sub :
         IF sl = 0 \/ ty = <<>> \/ sub = <<>>
            \/ FirstIdx(ty, NotTokenChar) # 0 \/ FirstIdx(sub, NotTokenChar) # 0
         THEN Err("FromStrError")
         ELSE Ok([type |-> ty, subtype |-> sub,
                  charset |-> IF StartsWith(param, CharsetEq)
                              THEN Some(Drop(param, Len(CharsetEq))) ELSE None])))))

\* "text/gemini; charset=utf-8"
DefaultMime == [type |-> Text, subtype |-> Gemini, charset |-> Some(Utf8)]

\* A parse that takes the variant from the second character of the code
StatusCode_parse_by_second_char(input) ==
    Bind(FirstIdx(input, IsSP), LAMBDA k :
    Bind2(IF k = 0 THEN input ELSE Take(input, k - 1),
          IF k = 0 THEN None ELSE Some(Drop(input, k)), LAMBDA first, rest :
    Bind2(IF rest = None THEN <<>> ELSE rest[1], Take(first, 2), LAMBDA collected, code :
         IF code = <<>> THEN Err("StatusCodeParseError")
         ELSE IF code[Len(code)] = "2"
         THEN Bind(Mime_parse(trim(collected)), LAMBDA mime :
                   Ok([variant |-> "Success", code |-> code,
                       mime_type |-> Some(IF mime.ok THEN mime.v ELSE DefaultMime)]))
         ELSE IF code[Len(code)] = "3"
         THEN Ok([variant |-> "Redirect", code |-> code, url |-> rest])
         ELSE IF code[Len(code)] = "4"
         THEN Ok([variant |-> "TemporaryFailure", code |-> code])
         ELSE IF code[Len(code)] = "5"
         THEN Ok([variant |-> "PermanentFailure", code |-> code, meta |-> trim(collected)])
         ELSE Panic("invalid status code"))))

\* StatusCode::parse of gemini.rs, which the transaction calls
StatusCode_parse(input) ==
    Bind(FirstIdx(input, IsSP), LAMBDA k :
    Bind2(IF k = 0 THEN input ELSE Take(input, k - 1),
          IF k = 0 THEN None ELSE Some(Drop(input, k)), LAMBDA first, rest :
    Bind2(IF rest = None THEN <<>> ELSE rest[1], Take(first, 2), LAMBDA collected, code :
         IF code = <<>> THEN Err("StatusCodeParseError")
         ELSE IF code[1] = "2"
         THEN Bind(Mime_parse(trim(collected)), LAMBDA mime :
                   Ok([variant |-> "Success", code |-> code,
                       mime_type |-> Some(IF mime.ok THEN mime.v ELSE DefaultMime)]))
         ELSE IF code[1] = "3"
         THEN Ok([variant |-> "Redirect", code |-> code, url |-> rest])
         ELSE IF code[1] = "4"
         THEN Ok([variant |-> "TemporaryFailure", code |-> code])
         ELSE IF code[1] = "5"
         THEN Ok([variant |-> "PermanentFailure", code |-> code, meta |-> trim(collected)])
         ELSE Panic("invalid status code"))))

\* The first of input.lines(): what precedes the first line feed, without
\* a carriage return at its end
IsLF(c) == c = LF
FirstLine(input) ==
    Bind(IF FirstIdx(input, IsLF) = 0 THEN input ELSE Take(input, FirstIdx(input, IsLF) - 1),
         LAMBDA line :
         IF line # <<>> /\ line[Len(line)] = CR THEN Take(line, Len(line) - 1) ELSE line)

\* ParseError of gemini/status_code.rs
ParseError(line) == [kind |-> "ParseError", line |-> line]

\* StatusCode::parse of gemini/status_code.rs, a file gemini.rs does not
\* declare as a module; input.lines() of the empty input has no first line
status_code_StatusCode_parse(input) ==
    Bind(FirstIdx(input, IsSP), LAMBDA k :
    Bind2(IF k = 0 THEN input ELSE Take(input, k - 1),
          IF k = 0 THEN None ELSE Some(Drop(input, k)), LAMBDA first, rest :
    Bind2(IF rest = None THEN <<>> ELSE rest[1], Take(first, 2), LAMBDA collected, code :
         IF Len(code) = 2 /\ code[1] = "2"
         THEN Bind(Mime_parse(trim(collected)), LAMBDA mime :
                   Ok([variant |-> "Success", code |-> code,
                       mime_type |-> Some(IF mime.ok THEN mime.v ELSE DefaultMime)]))
         ELSE IF Len(code) = 2 /\ code[1] = "3"
         THEN Ok([variant |-> "Redirect", code |-> code, url |-> rest])
         ELSE IF Len(code) = 2 /\ code[1] = "4"
         THEN Ok([variant |-> "TemporaryFailure", code |-> code, meta |-> trim(collected)])
         ELSE IF Len(code) = 2 /\ code[1] = "5"
         THEN Ok([variant |-> "PermanentFailure", code |-> code, meta |-> trim(collected)])
         ELSE IF input = <<>> THEN Panic("unwrap on None")
         ELSE Err(ParseError(FirstLine(input))))))

\* --------------------------------------------------------------- gemtext

LinkMarker == <<"=", ">">>

\* The split closure of Line::parse: true on the first character of a run
\* of whitespace.
SplitPoints(line) ==
    {i \in 1..Len(line) : IsWs(line[i]) /\ (i = 1 \/ ~IsWs(line[i - 1]))}

\* The i-th smallest element of a set of numbers
Nth(S, i) == CHOOSE x \in S : Cardinality({y \in S : y < x}) = i - 1

\* line.splitn(3, split_on_whitespace).map(str::trim)
SplitN3(line) ==
    Bind(SplitPoints(line), LAMBDA P :
         IF P = {} THEN <<trim(line)>>
         ELSE IF Cardinality(P) = 1
         THEN <<trim(Take(line, Nth(P, 1) - 1)), trim(Drop(line, Nth(P, 1)))>>
         ELSE <<trim(Take(line, Nth(P, 1) - 1)),
                trim(SubSeq(line, Nth(P, 1) + 1, Nth(P, 2) - 1)),
                trim(Drop(line, Nth(P, 2)))>>)

\* Line::parse
Line_parse(line) ==
    IF StartsWith(line, LinkMarker)
    THEN Bind(SplitN3(line), LAMBDA parts :
              IF Len(parts) >= 2
              THEN IF parts[2] = <<>> THEN [kind |-> "InvalidLink"]
                   ELSE [kind |-> "Link", url |-> parts[2],
                         name |-> IF Len(parts) < 3 \/ parts[3] = <<>>
                                  THEN None ELSE Some(parts[3])]
              ELSE [kind |-> "InvalidLink"])
    ELSE [kind |-> "Normal", text |-> line]

\* -------------------------------------------------------------- Terminal

\* LOGO.lines().count() and the longest line of LOGO
LogoHeight == 13
LogoWidth == 64

\* A page that also takes the status row
page_rows_with_status_row(height) == height

\* Terminal::page_rows: -1 for the status row
page_rows(height) == height - 1

\* Rows of textwrap::wrap for a text without whitespace (one word, broken
\* at the width); the empty text wraps to one empty row.
line_wrapped_rows(text, width) ==
    IF text = <<>> THEN 1 ELSE (Len(text) + width - 1) \div width

\* Number of rows Terminal::render_line returns
render_line(line, width) ==
    IF line.kind = "Normal" THEN line_wrapped_rows(line.text, width) ELSE 1

\* The u16 and usize subtractions of render_default_page and
\* draw_status_line that overflow (a panic of the overflow check).
DefaultPageOverflows(width, height) ==
    \/ width \div 2 < LogoWidth \div 2
    \/ height \div 2 < LogoHeight \div 2
    \/ (width \div 2) - (LogoWidth \div 2) < 6
StatusLineOverflows(ctx, width, height) ==
    \/ height < 1
    \/ ~ctx.loading /\ ctx.mode = "Normal" /\ width < 5

\* The loop of Terminal::render_page over the rows of the lines: i is the
\* line, k the row of the line, row the rows counted, y the cursor row.
RECURSIVE RenderLoop(_, _, _, _, _, _, _)
RenderLoop(t, i, k, row, y, cur, painted) ==
    IF i > Len(t.content)
    THEN [current_row |-> cur, painted |-> painted]
    ELSE IF k > render_line(t.content[i], t.width)
    THEN RenderLoop(t, i + 1, 1, row, y, cur, painted)
    ELSE IF row + 1 < t.start_printing_from_row
    THEN RenderLoop(t, i, k + 1, row + 1, 0, cur, painted)
    ELSE IF y >= page_rows(t.height)
    THEN RenderLoop(t, i + 1, 1, row + 1, y,
                    IF t.current_line_index = i - 1 THEN Some(row + 1) ELSE cur, painted)
    ELSE RenderLoop(t, i, k + 1, row + 1, y + 1,
                    IF t.current_line_index = i - 1 THEN Some(row + 1) ELSE cur,
                    Append(painted, row + 1))

\* Terminal::render_page: the row of the active line, or a panic
Terminal_render_page(current_line_index, content, scroll_offset, ctx, width, height) ==
    IF ctx.url = None
    THEN IF DefaultPageOverflows(width, height) \/ StatusLineOverflows(ctx, width, height)
         THEN Panic("attempt to subtract with overflow")
         ELSE Ok(0)
    ELSE Bind(RenderLoop([content |-> content, width |-> width, height |-> height,
                          current_line_index |-> current_line_index,
                          start_printing_from_row |-> scroll_offset + 1],
                         1, 1, 0, 0, None, <<>>), LAMBDA r :
              IF height < 1 \/ StatusLineOverflows(ctx, width, height)
              THEN Panic("attempt to subtract with overflow")
              ELSE IF r.current_row = None THEN Panic("no current row")
              ELSE Ok(r.current_row[1]))

\* ------------------------------------------------- the world of the model

\* Terminal sizes: the size at startup and the sizes of resize events.
StartSizes == {<<76, 12>>}
ResizeSizes == {<<76, 12>>}

\* Response bodies by name; a body is given by its lines (str::lines).
Body(name) ==
    IF name = "V" THEN <<<<"a">>,
                         <<"a", "b", "c", "d", "e", "f", "g">>,
                         <<"b">>,
                         <<"a", "b", "c", "d", "e", "f", "g", "h", "i", "j", "k", "l">>,
                         <<"c">>,
                         <<"d">>>>
    ELSE IF name = "A" THEN <<<<"=", ">", SP, "g", ":", "/", "/", "t">>,
                         <<"=", ">", SP, "g", ":", "/", "/", "r">>,
                         <<"=", ">", SP, "g", ":", "/", "/", "p">>>>
    ELSE <<<<"=", ">">>, <<"=", ">", SP, "g", ":", "/", "/", "a">>>>

\* What the network does for a host: whether the name resolves, whether
\* the connection is made, the header line and the body the server sends,
\* and whether reading the body ends in an error other than a peer close.
\* Host v serves the document V of plain lines, some longer than a narrow
\* terminal is wide.  Host s redirects to a path, d to another host, n without a target; m
\* serves text/p, x breaks off the body, h and z send no status line.
Net(host) ==
    IF host = <<"a">> THEN [resolves |-> TRUE, connects |-> TRUE, header |-> <<"2", "0", SP, "t", "e", "x", "t", "/", "g", "e", "m", "i", "n", "i", CR, LF>>,
                            body |-> "A", read_error |-> FALSE]
    ELSE IF host = <<"b">> THEN [resolves |-> TRUE, connects |-> TRUE, header |-> <<"2", "0", CR, LF>>,
                                 body |-> "B", read_error |-> FALSE]
    ELSE IF host = <<"r">> THEN [resolves |-> TRUE, connects |-> TRUE, header |-> <<"3", "0", SP, "g", ":", "/", "/", "r", CR, LF>>,
                                 body |-> "", read_error |-> FALSE]
    ELSE IF host = <<"p">> THEN [resolves |-> TRUE, connects |-> TRUE, header |-> <<"5", "1", SP, "n", "f", CR, LF>>,
                                 body |-> "", read_error |-> FALSE]
    ELSE IF host = <<"t">> THEN [resolves |-> TRUE, connects |-> TRUE, header |-> <<"4", "0", SP, "s", "l", "o", "w", CR, LF>>,
                                 body |-> "", read_error |-> FALSE]
    ELSE IF host = <<"v">> THEN [resolves |-> TRUE, connects |-> TRUE, header |-> <<"2", "0", CR, LF>>,
                                 body |-> "V", read_error |-> FALSE]
    ELSE IF host = <<"e">> THEN [resolves |-> TRUE, connects |-> FALSE, header |-> <<>>,
                                 body |-> "", read_error |-> FALSE]
    ELSE IF host = <<"s">> THEN [resolves |-> TRUE, connects |-> TRUE, header |-> <<"3", "0", SP, "/", "a", CR, LF>>,
                                 body |-> "", read_error |-> FALSE]
    ELSE IF host = <<"d">> THEN [resolves |-> TRUE, connects |-> TRUE, header |-> <<"3", "1", SP, "g", ":", "/", "/", "a", CR, LF>>,
                                 body |-> "", read_error |-> FALSE]
    ELSE IF host = <<"n">> THEN [resolves |-> TRUE, connects |-> TRUE, header |-> <<"3", "0", CR, LF>>,
                                 body |-> "", read_error |-> FALSE]
    ELSE IF host = <<"m">> THEN [resolves |-> TRUE, connects |-> TRUE, header |-> <<"2", "0", SP, "t", "e", "x", "t", "/", "p", CR, LF>>,
                                 body |-> "A", read_error |-> FALSE]
    ELSE IF host = <<"x">> THEN [resolves |-> TRUE, connects |-> TRUE, header |-> <<"2", "0", CR, LF>>,
                                 body |-> "A", read_error |-> TRUE]
    ELSE IF host = <<"h">> THEN [resolves |-> TRUE, connects |-> TRUE, header |-> <<"9", "x", CR, LF>>,
                                 body |-> "", read_error |-> FALSE]
    ELSE IF host = <<"z">> THEN [resolves |-> TRUE, connects |-> TRUE, header |-> <<>>,
                                 body |-> "", read_error |-> FALSE]
    ELSE [resolves |-> FALSE, connects |-> FALSE, header |-> <<>>,
          body |-> "", read_error |-> FALSE]

\* The command lines the user types, character by character.
TypedHosts == {"a", "b", "p"}
GoPrefix == <<"g", "o", SP, "g", ":", "/", "/">>
Scripts == {GoPrefix \o <<h>> : h \in TypedHosts} \cup {<<"q">>}

\* The buffers at which the user presses Enter: a whole command line, the
\* empty line, or a line that is no command.
Committed == Scripts \cup {<<>>, <<"g", "o">>}

Typable(buffer, c) == \E sc \in Scripts : StartsWith(sc, Append(buffer, c))

\* ------------------------------------------------------------ transaction

\* webpki::DNSNameRef::try_from_ascii_str
ValidDnsName(host) == host # <<>>

\* encoding::label::encoding_from_whatwg_label
KnownCharset(label) == label = Utf8

\* Redirects followed before a redirect response ends the transaction
RedirectLimit == 5

\* TransactionError and its Display
IoError == [kind |-> "IoError"]
InvalidDnsName == [kind |-> "InvalidDnsName"]
StatusCodeParseError == [kind |-> "StatusCodeParseError"]
PermanentFailure(code, meta) == [kind |-> "PermanentFailure", code |-> code, meta |-> meta]
to_string(e) ==
    IF e.kind = "IoError" THEN <<"IO error">>
    ELSE IF e.kind = "InvalidDnsName" THEN <<"invalid DNS name">>
    ELSE IF e.kind = "StatusCodeParseError" THEN <<"status code parse error">>
    ELSE <<"permanent failure: ">> \o e.code \o <<SP>> \o e.meta

\* Response
ResponseBody(content, status_code) ==
    [kind |-> "Body", content |-> content, status_code |-> status_code]
RedirectLoop(url) == [kind |-> "RedirectLoop", url |-> url]

\* What one call of transaction_inner does with the response of the server:
\* it returns a Result, panics, or calls itself for the redirect target.
\* requested tells whether the request line was written to a socket.
Return(result, requested) == [do |-> "return", result |-> result, requested |-> requested]
Recurse(url, redirect_count) ==
    [do |-> "recurse", url |-> url, redirect_count |-> redirect_count, requested |-> TRUE]
Panics(requested) == [do |-> "panic", requested |-> requested]

SuccessArm(net, status_code) ==
    Bind(IF status_code.mime_type = None
         THEN [type |-> Text, subtype |-> Gemini, charset |-> None]
         ELSE status_code.mime_type[1], LAMBDA mime_type :
         IF net.read_error THEN Panics(TRUE)
         ELSE IF mime_type.type = Text /\ mime_type.subtype = Gemini
         THEN IF KnownCharset(IF mime_type.charset = None THEN Utf8
                              ELSE mime_type.charset[1])
              THEN Return(Ok(ResponseBody(Some(net.body), status_code)), TRUE)
              ELSE Panics(TRUE)
         ELSE Panics(TRUE))

RedirectArm(status_code, redirect_count) ==
    IF redirect_count > RedirectLimit
    THEN Return(Ok(RedirectLoop(status_code.url)), TRUE)
    ELSE IF status_code.url = None THEN Panics(TRUE)
    ELSE Bind(Url_parse(status_code.url[1]), LAMBDA parsed :
              IF ~parsed.ok THEN Panics(TRUE)
              ELSE Recurse(parsed.v, redirect_count + 1))

\* One call of transaction_inner, up to its recursive call
transaction_call(url, redirect_count) ==
    IF host_str(url) = None THEN Panics(FALSE)
    ELSE IF ~ValidDnsName(host_str(url)[1]) THEN Return(Err(InvalidDnsName), FALSE)
    ELSE Bind(Net(host_str(url)[1]), LAMBDA net :
         IF ~net.resolves THEN Panics(FALSE)
         ELSE IF ~net.connects THEN Return(Err(IoError), FALSE)
         ELSE Bind(StatusCode_parse(net.header), LAMBDA parsed :
              IF parsed.panic THEN Panics(TRUE)
              ELSE IF ~parsed.ok THEN Return(Err(StatusCodeParseError), TRUE)
              ELSE IF parsed.v.variant = "Success" THEN SuccessArm(net, parsed.v)
              ELSE IF parsed.v.variant = "TemporaryFailure" THEN Panics(TRUE)
              ELSE IF parsed.v.variant = "PermanentFailure"
              THEN Return(Err(PermanentFailure(parsed.v.code, parsed.v.meta)), TRUE)
              ELSE RedirectArm(parsed.v, redirect_count)))

\* transaction_inner: the outcome of the transaction (a Result or a panic),
\* the requests written to sockets and the redirects followed on the way
RECURSIVE transaction_inner(_, _)
transaction_inner(url, redirect_count) ==
    Bind(transaction_call(url, redirect_count), LAMBDA o :
         IF o.do = "recurse"
         THEN [transaction_inner(o.url, o.redirect_count)
                 EXCEPT !.requests = @ + 1, !.redirects = @ + 1]
         ELSE [panic |-> o.do = "panic",
               result |-> IF o.do = "panic" THEN Err(IoError) ELSE o.result,
               requests |-> IF o.requested THEN 1 ELSE 0,
               redirects |-> 0])

\* transaction
transaction(url) == transaction_inner(url, 0)

\* Event
TerminateWorker == [type |-> "TerminateWorker"]
TransactionComplete(response, url) ==
    [type |-> "TransactionComplete", response |-> response, url |-> url]
TransactionError(e) == [type |-> "TransactionError", e |-> e]

\* The event the spawned thread of State::request sends for a Result
EventOf(result, url) ==
    IF result.ok THEN TransactionComplete(result.v, url) ELSE TransactionError(result.e)

\* ------------------------------------------------------------------ State
(* A State value is a record of the fields of struct State.  The flag      *)
(* loading is the Loading of Mode: the mode match of handle_key_event has  *)
(* the arms Normal and Input | Search only, and the status line reads      *)
(* status_line_context.loading beside the mode.                            *)
(*                                                                         *)
(* The methods work on a step record: the State, the screen (what the last *)
(* render drew), the URLs of the threads spawned and the events sent       *)
(* during the step, and whether the step panicked.                         *)

\* State::new_with_tx
new_with_tx(width, height) ==
    [current_line_index |-> 0,
     current_row |-> 1,
     content |-> None,
     current_url |-> None,
     last_status_code |-> None,
     mode |-> "Normal",
     loading |-> FALSE,
     scroll_offset |-> 0,
     error_message |-> None,
     input |-> <<>>,
     width |-> width,
     height |-> height,
     terminated |-> FALSE]

\* What a render draws: the page and the status line
StatusLineContext(st) ==
    [status_code |-> st.last_status_code,
     url |-> st.current_url,
     error_message |-> st.error_message,
     mode |-> st.mode,
     loading |-> st.loading,
     input |-> st.input]

\* State::content
content(st) ==
    IF st.content = None THEN <<[kind |-> "Normal", text |-> <<>>]>>
    ELSE [i \in 1..Len(Body(st.content[1])) |-> Line_parse(Body(st.content[1])[i])]

Drawn(st) ==
    [current_line_index |-> st.current_line_index,
     content |-> st.content,
     scroll_offset |-> st.scroll_offset,
     width |-> st.width,
     height |-> st.height,
     status_line |-> StatusLineContext(st)]

Step(st, drawn) ==
    [st |-> st, screen |-> drawn, spawn |-> <<>>, send |-> <<>>, panic |-> FALSE]

\* A render that does not store the row it returns
render_page_keeps_row(x) ==
    IF x.panic THEN x
    ELSE Bind(Terminal_render_page(x.st.current_line_index, content(x.st),
                                   x.st.scroll_offset, StatusLineContext(x.st),
                                   x.st.width, x.st.height), LAMBDA r :
              IF r.panic THEN [x EXCEPT !.panic = TRUE]
              ELSE [x EXCEPT !.screen = Some(Drawn(x.st))])

\* State::render_page
render_page(x) ==
    IF x.panic THEN x
    ELSE Bind(Terminal_render_page(x.st.current_line_index, content(x.st),
                                   x.st.scroll_offset, StatusLineContext(x.st),
                                   x.st.width, x.st.height), LAMBDA r :
              IF r.panic THEN [x EXCEPT !.panic = TRUE]
              ELSE [x EXCEPT !.st.current_row = r.v, !.screen = Some(Drawn(x.st))])

\* State::clear_screen_and_render_page
clear_screen_and_render_page(x) == render_page(x)

\* A qualification that joins onto the current URL as it is
qualify_url_keeps_query(st, url_or_path) ==
    Bind(Url_parse(url_or_path), LAMBDA parsed :
         IF parsed.ok THEN Ok(parsed.v)
         ELSE IF parsed.e = "RelativeUrlWithoutBase"
         THEN IF st.current_url = None THEN Panic("unwrap on None")
              ELSE Bind(Url_join(st.current_url[1], url_or_path), LAMBDA joined :
                        IF joined.ok THEN Ok(joined.v) ELSE Panic("unwrap on Err"))
         ELSE Panic(parsed.e))

\* State::qualify_url
qualify_url(st, url_or_path) ==
    Bind(Url_parse(url_or_path), LAMBDA parsed :
         IF parsed.ok THEN Ok(parsed.v)
         ELSE IF parsed.e = "RelativeUrlWithoutBase"
         THEN IF st.current_url = None THEN Panic("unwrap on None")
              ELSE Bind(Url_join(set_fragment_none(set_query_none(st.current_url[1])),
                                 url_or_path), LAMBDA joined :
                        IF joined.ok THEN Ok(joined.v) ELSE Panic("unwrap on Err"))
         ELSE Panic(parsed.e))

\* State::request
request(x, url_or_path) ==
    IF x.panic THEN x
    ELSE Bind(qualify_url(x.st, url_or_path), LAMBDA url :
              IF url.panic THEN [x EXCEPT !.panic = TRUE]
              ELSE [x EXCEPT !.st.loading = TRUE, !.spawn = Append(@, url.v)])

\* State::down
down(x) ==
    IF x.panic THEN x
    ELSE clear_screen_and_render_page(
           [x EXCEPT !.st.current_line_index = @ + 1,
                     !.st.scroll_offset =
                         IF x.st.current_row >= page_rows(x.st.height) THEN @ + 1 ELSE @])

\* State::up
up(x) ==
    IF x.panic THEN x
    ELSE IF x.st.current_line_index = 0 THEN x
    ELSE IF x.st.current_row = 1 /\ x.st.scroll_offset = 0 THEN [x EXCEPT !.panic = TRUE]
    ELSE clear_screen_and_render_page(
           [x EXCEPT !.st.current_line_index = @ - 1,
                     !.st.scroll_offset = IF x.st.current_row = 1 THEN @ - 1 ELSE @])

\* State::input
input(x) ==
    IF x.panic THEN x
    ELSE clear_screen_and_render_page([x EXCEPT !.st.mode = "Input"])

\* State::quit; the send panics when the receiver is gone
quit(x, receiver) ==
    IF x.panic THEN x
    ELSE IF ~receiver THEN [x EXCEPT !.st.terminated = TRUE, !.panic = TRUE]
    ELSE [x EXCEPT !.st.terminated = TRUE, !.send = Append(@, TerminateWorker)]

\* State::enter
enter(x) ==
    IF x.panic THEN x
    ELSE IF x.st.loading THEN x
    ELSE Bind(content(x.st), LAMBDA lines :
              IF x.st.current_line_index >= Len(lines) THEN [x EXCEPT !.panic = TRUE]
              ELSE IF lines[x.st.current_line_index + 1].kind = "Link"
              THEN request(x, lines[x.st.current_line_index + 1].url)
              ELSE x)

\* State::set_error_message, State::clear_error_message
set_error_message(x, message) == [x EXCEPT !.st.error_message = Some(message)]
clear_error_message(x) == [x EXCEPT !.st.error_message = None]

\* State::new_size
new_size(x, width, height) ==
    clear_screen_and_render_page([x EXCEPT !.st.width = width, !.st.height = height])

\* A completion that is dropped when a document is already displayed
transaction_complete_first_wins(x, response, url) ==
    IF response.kind = "Body"
    THEN render_page(IF x.st.current_url # None
                     THEN [x EXCEPT !.st.mode = "Normal", !.st.loading = FALSE]
                     ELSE [x EXCEPT !.st.current_line_index = 0,
                                    !.st.content = response.content,
                                    !.st.current_url = Some(url),
                                    !.st.last_status_code = Some(response.status_code),
                                    !.st.mode = "Normal",
                                    !.st.loading = FALSE])
    ELSE [x EXCEPT !.panic = TRUE]

\* A completion that keeps the active line and the mode
transaction_complete_keeps_line(x, response, url) ==
    IF response.kind = "Body"
    THEN render_page([x EXCEPT !.st.content = response.content,
                               !.st.current_url = Some(url),
                               !.st.last_status_code = Some(response.status_code),
                               !.st.loading = FALSE])
    ELSE [x EXCEPT !.panic = TRUE]

\* State::transaction_complete
transaction_complete(x, response, url) ==
    IF response.kind = "Body"
    THEN render_page([x EXCEPT !.st.current_line_index = 0,
                               !.st.content = response.content,
                               !.st.current_url = Some(url),
                               !.st.last_status_code = Some(response.status_code),
                               !.st.mode = "Normal",
                               !.st.loading = FALSE])
    ELSE [x EXCEPT !.panic = TRUE]

\* An error that also moves the active line back to the top
transaction_error_resets_line(x, e) ==
    render_page([set_error_message(x, to_string(e)) EXCEPT !.st.mode = "Normal",
                                                            !.st.loading = FALSE,
                                                            !.st.current_line_index = 0])

\* State::transaction_error
transaction_error(x, e) ==
    render_page([set_error_message(x, to_string(e)) EXCEPT !.st.mode = "Normal",
                                                            !.st.loading = FALSE])

\* ------------------------------------------------------------------ Input
(* The Input of state/input.rs.  Its buffer is the field input of the      *)
(* state.  Its history (history_index, existing_history, local_history) is *)
(* read only by the Up and Down keys: the state of SpecInput, whose user   *)
(* presses them, carries the three fields, and a state without them        *)
(* stands for every history.                                               *)
HasHistory(st) == "local_history" \in DOMAIN st

\* InputEnterResult::from
InputEnterResult_from(buffer) ==
    IF StartsWith(buffer, <<"g", "o", SP>>)
    THEN [kind |-> "Navigate", url |-> Drop(buffer, 3)]
    ELSE IF buffer = <<"q", "u", "i", "t">> \/ buffer = <<"q">>
    THEN [kind |-> "Quit"]
    ELSE [kind |-> "Invalid", input |-> buffer]

\* Input::input_char
Input_input_char(buffer, c) == Append(buffer, c)

\* A cancel that leaves the buffer
Input_cancel_keeps(buffer) == buffer

\* Input::cancel
Input_cancel(buffer) == <<>>

\* .nth(i) of the chained history without the .rev(): oldest first
nth(st, i) ==
    Bind(st.existing_history \o st.local_history, LAMBDA history :
         IF i < Len(history) THEN Some(history[i + 1]) ELSE None)

\* .rev().nth(i) of existing_history chained with local_history: the entry
\* i places from the newest, None past the oldest
rev_nth(st, i) ==
    Bind(st.existing_history \o st.local_history, LAMBDA history :
         IF i < Len(history) THEN Some(history[Len(history) - i]) ELSE None)

\* Input::set_input_from_history, History::get
set_input_from_history(st) ==
    IF st.history_index = None THEN Panic("must be set")
    ELSE Bind(rev_nth(st, st.history_index[1]), LAMBDA entry :
              Ok([st EXCEPT !.input = IF entry = None THEN <<>> ELSE entry[1]]))

\* Input::up, History::up
Input_up(st) ==
    set_input_from_history(
        [st EXCEPT !.history_index = IF @ = None THEN Some(0) ELSE Some(@[1] + 1)])

\* Input::down, History::down
Input_down(st) ==
    IF st.history_index = Some(0) THEN Ok(st)
    ELSE set_input_from_history(
           [st EXCEPT !.history_index = IF @ = None THEN Some(0) ELSE Some(@[1] - 1)])

\* Input::enter without the result: the buffer is taken, pushed on the
\* local history, and the index is reset
Input_enter(st) ==
    IF HasHistory(st)
    THEN [st EXCEPT !.input = <<>>,
                    !.local_history = Append(@, st.input),
                    !.history_index = None]
    ELSE [st EXCEPT !.input = <<>>]

\* Input::delete_word: the last piece of split_inclusive is dropped
IsWordEnd(c) == c \notin (Alpha \cup Digit \cup {"_"})
Input_delete_word(buffer) ==
    IF buffer = <<>> THEN <<>>
    ELSE Take(buffer, LastIdx(Take(buffer, Len(buffer) - 1), IsWordEnd))

\* Input::delete_char
Input_delete_char(buffer) ==
    IF buffer = <<>> THEN <<>> ELSE Take(buffer, Len(buffer) - 1)

\* ------------------------------------------------------- handle_key_event

\* Terminal events
KeyChar(c) == [k |-> "Char", c |-> c]
KeyEnter == [k |-> "Enter"]
KeyEsc == [k |-> "Esc"]
KeyBackspace == [k |-> "Backspace"]
KeyCtrlW == [k |-> "CtrlW"]
KeyUp == [k |-> "Up"]
KeyDown == [k |-> "Down"]
Mouse == [k |-> "Mouse"]
Resize(width, height) == [k |-> "Resize", width |-> width, height |-> height]

\* edit::command
command(event) ==
    IF event.k = "CtrlW" THEN [kind |-> "DeleteWord"]
    ELSE IF event.k = "Backspace" THEN [kind |-> "DeleteChar"]
    ELSE IF event.k = "Char" THEN [kind |-> "AddChar", c |-> event.c]
    ELSE IF event.k = "Enter" THEN [kind |-> "Enter"]
    ELSE IF event.k = "Esc" THEN [kind |-> "Esc"]
    ELSE IF event.k = "Up" THEN [kind |-> "Up"]
    ELSE IF event.k = "Down" THEN [kind |-> "Down"]
    ELSE [kind |-> "None"]

\* The Normal arm of handle_key_event
NormalKey(x, event) ==
    IF event.k = "Char" /\ event.c = ":" THEN input(x)
    ELSE IF event.k = "Char" /\ event.c = "j" THEN down(x)
    ELSE IF event.k = "Char" /\ event.c = "k" THEN up(x)
    ELSE IF event.k = "Enter" THEN enter(x)
    ELSE x

\* Command::Enter of the Input arm of handle_key_event
InputEnter(x, receiver) ==
    Bind2(InputEnterResult_from(x.st.input), [x EXCEPT !.st = Input_enter(@)],
          LAMBDA result, entered :
          IF x.st.input = <<>> THEN [x EXCEPT !.st.mode = "Normal"]
          ELSE IF result.kind = "Navigate"
          THEN clear_screen_and_render_page(request(entered, result.url))
          ELSE IF result.kind = "Quit" THEN quit(entered, receiver)
          ELSE clear_screen_and_render_page(
                 set_error_message([entered EXCEPT !.st.mode = "Normal"],
                                   <<"Invalid command: ">> \o result.input)))

\* Command::Up and Command::Down of the Input arm of handle_key_event
HistoryKey(x, moved) ==
    IF moved.panic THEN [x EXCEPT !.panic = TRUE]
    ELSE clear_screen_and_render_page([x EXCEPT !.st = moved.v])

\* The Input arm of handle_key_event
InputKey(x, event, receiver) ==
    Bind(command(event), LAMBDA cmd :
         IF cmd.kind = "DeleteWord"
         THEN clear_screen_and_render_page([x EXCEPT !.st.input = Input_delete_word(@)])
         ELSE IF cmd.kind = "DeleteChar"
         THEN clear_screen_and_render_page([x EXCEPT !.st.input = Input_delete_char(@)])
         ELSE IF cmd.kind = "AddChar"
         THEN clear_screen_and_render_page([x EXCEPT !.st.input = Input_input_char(@, cmd.c)])
         ELSE IF cmd.kind = "Up" THEN HistoryKey(x, Input_up(x.st))
         ELSE IF cmd.kind = "Down" THEN HistoryKey(x, Input_down(x.st))
         ELSE IF cmd.kind = "Enter" THEN InputEnter(x, receiver)
         ELSE IF cmd.kind = "Esc"
         THEN clear_screen_and_render_page(
                [x EXCEPT !.st.input = Input_cancel(@), !.st.mode = "Normal"])
         ELSE x)

\* A handler that takes `j` and `k` for moves in every mode
handle_key_event_moves_first(x, event, receiver) ==
    IF x.st.mode = "Normal" \/ (event.k = "Char" /\ event.c \in {"j", "k"})
    THEN NormalKey(clear_error_message(x), event)
    ELSE InputKey(clear_error_message(x), event, receiver)

\* handle_key_event
handle_key_event(x, event, receiver) ==
    IF x.st.mode = "Normal" THEN NormalKey(clear_error_message(x), event)
    ELSE InputKey(clear_error_message(x), event, receiver)

\* The body of the loop of input::run for one terminal event
run(x, event, receiver) ==
    IF event.k = "Mouse" THEN x
    ELSE IF event.k = "Resize" THEN new_size(x, event.width, event.height)
    ELSE handle_key_event(x, event, receiver)

\* The terminal events the user produces in a state.
Events(st) ==
    {Mouse} \cup {Resize(sz[1], sz[2]) : sz \in ResizeSizes}
    \cup (IF st.mode = "Normal"
          THEN {KeyChar(":"), KeyChar("k"), KeyChar("x"), KeyEnter}
               \cup (IF st.current_line_index < MaxIndex THEN {KeyChar("j")} ELSE {})
          ELSE {KeyChar(c) : c \in {c \in Alpha \cup {SP, ":", "/"} : Typable(st.input, c)}}
               \cup {KeyEsc, KeyBackspace, KeyCtrlW}
               \cup (IF st.input \in Committed THEN {KeyEnter} ELSE {}))

\* ------------------------------------------------------- the three loops

\* The thread State::request spawns for a URL
Task(url) ==
    [url |-> url, pc |-> "running", requests |-> 0, redirects |-> 0, sent |-> "none"]

Init ==
    /\ \E sz \in StartSizes : state = new_with_tx(sz[1], sz[2])
    /\ screen = None
    /\ lock = "none"
    /\ poisoned = FALSE
    /\ chan = <<>>
    /\ rx = TRUE
    /\ tasks = <<>>
    /\ pcIn = "read"
    /\ pcW = "recv"
    /\ wEvent = None
    /\ sent = <<>>
    /\ consumed = <<>>
    /\ call = None

\* input::run: read() returns a terminal event and the thread takes the lock
InputRead ==
    /\ pcIn = "read"
    /\ IF poisoned
       THEN pcIn' = "panicked" /\ lock' = lock
       ELSE lock = "none" /\ lock' = "input" /\ pcIn' = "handle"
    /\ UNCHANGED <<state, screen, poisoned, chan, rx, tasks, pcW, wEvent, sent, consumed>>
    /\ UNCHANGED call

\* input::run: the event is handled and the guard is dropped
InputHandle(event) ==
    /\ pcIn = "handle"
    /\ event \in Events(state)
    /\ \E x \in {run(Step(state, screen), event, rx)} :
           /\ Len(tasks) + Len(x.spawn) <= MaxTasks
           /\ state' = x.st
           /\ screen' = x.screen
           /\ tasks' = tasks \o [i \in 1..Len(x.spawn) |-> Task(x.spawn[i])]
           /\ chan' = chan \o x.send
           /\ sent' = sent \o x.send
           /\ poisoned' = x.panic
           /\ lock' = "none"
           /\ pcIn' = IF x.panic THEN "panicked"
                      ELSE IF x.st.terminated THEN "stopped" ELSE "read"
    /\ UNCHANGED <<rx, pcW, wEvent, consumed>>
    /\ UNCHANGED call

\* A channel that hands out its newest event
recv_last(ch) == ch[Len(ch)]

\* Receiver::recv: the oldest event of the channel
recv(ch) == Head(ch)

\* handle_event_loop: recv() returns an event; TerminateWorker ends the
\* loop, any other event is applied under the lock
WorkerRecv ==
    /\ pcW = "recv"
    /\ chan # <<>>
    /\ consumed' = Append(consumed, recv(chan))
    /\ IF recv(chan).type = "TerminateWorker"
       THEN /\ pcW' = "stopped"
            /\ rx' = FALSE
            /\ chan' = <<>>
            /\ UNCHANGED <<lock, wEvent>>
       ELSE IF poisoned
       THEN /\ pcW' = "panicked"
            /\ rx' = FALSE
            /\ chan' = <<>>
            /\ UNCHANGED <<lock, wEvent>>
       ELSE /\ lock = "none"
            /\ lock' = "worker"
            /\ pcW' = "apply"
            /\ wEvent' = Some(recv(chan))
            /\ chan' = Tail(chan)
            /\ rx' = rx
    /\ UNCHANGED <<state, screen, poisoned, tasks, pcIn, sent>>
    /\ UNCHANGED call

\* What the worker loop does with a transaction event under the lock
Apply(x, event) ==
    IF event.type = "TransactionComplete"
    THEN transaction_complete(x, event.response, event.url)
    ELSE transaction_error(x, event.e)

WorkerApply ==
    /\ pcW = "apply"
    /\ \E x \in {Apply(Step(state, screen), wEvent[1])} :
           /\ state' = x.st
           /\ screen' = x.screen
           /\ poisoned' = x.panic
           /\ lock' = "none"
           /\ pcW' = IF x.panic THEN "panicked" ELSE "recv"
           /\ rx' = ~x.panic
           /\ chan' = IF x.panic THEN <<>> ELSE chan
    /\ wEvent' = None
    /\ UNCHANGED <<tasks, pcIn, sent, consumed>>
    /\ UNCHANGED call

\* A spawned thread that unwraps the result of its send
TaskStepUnwrap(i) ==
    /\ tasks[i].pc = "running"
    /\ \E o \in {transaction(tasks[i].url)} :
           IF o.panic
           THEN /\ tasks' = [tasks EXCEPT ![i].pc = "panicked",
                                          ![i].requests = o.requests,
                                          ![i].redirects = o.redirects]
                /\ UNCHANGED <<chan, sent>>
           ELSE /\ tasks' = [tasks EXCEPT ![i].pc = IF rx THEN "exited" ELSE "panicked",
                                          ![i].requests = o.requests,
                                          ![i].redirects = o.redirects,
                                          ![i].sent = IF rx THEN "ok" ELSE "err"]
                /\ chan' = IF rx THEN Append(chan, EventOf(o.result, tasks[i].url)) ELSE chan
                /\ sent' = IF rx THEN Append(sent, EventOf(o.result, tasks[i].url)) ELSE sent
    /\ UNCHANGED <<state, screen, lock, poisoned, rx, pcIn, pcW, wEvent, consumed>>
    /\ UNCHANGED call

\* The i-th spawned thread runs its transaction, sends the event of the
\* result and exits; a panic of the transaction ends it without an event
TaskStep(i) ==
    /\ tasks[i].pc = "running"
    /\ \E o \in {transaction(tasks[i].url)} :
           IF o.panic
           THEN /\ tasks' = [tasks EXCEPT ![i].pc = "panicked",
                                          ![i].requests = o.requests,
                                          ![i].redirects = o.redirects]
                /\ UNCHANGED <<chan, sent>>
           ELSE /\ tasks' = [tasks EXCEPT ![i].pc = "exited",
                                          ![i].requests = o.requests,
                                          ![i].redirects = o.redirects,
                                          ![i].sent = IF rx THEN "ok" ELSE "err"]
                /\ chan' = IF rx THEN Append(chan, EventOf(o.result, tasks[i].url)) ELSE chan
                /\ sent' = IF rx THEN Append(sent, EventOf(o.result, tasks[i].url)) ELSE sent
    /\ UNCHANGED <<state, screen, lock, poisoned, rx, pcIn, pcW, wEvent, consumed>>
    /\ UNCHANGED call

Next ==
    \/ InputRead
    \/ \E event \in Events(state) : InputHandle(event)
    \/ WorkerRecv
    \/ WorkerApply
    \/ \E i \in 1..Len(tasks) : TaskStep(i)

Spec == Init /\ [][Next]_vars

\* ---------------------------------------------- the orchestrator of main.rs
(* src/src/main.rs is a self-contained binary with its own State, Event and *)
(* handle_event_loop: a navigation is an event Navigate, and the worker     *)
(* loop runs the transaction itself.  SpecMain is its specification; the    *)
(* variables tasks, sent and consumed are not used by it.                  *)

\* Events the user has queued that the worker loop has not received
MaxChan == 2

\* Event of main.rs
Navigate(url_or_path) == [type |-> "Navigate", url |-> url_or_path]
Terminate == [type |-> "Terminate"]
Redraw == [type |-> "Redraw"]

\* The URL main() fetches before the loops start
InitialUrl == <<"g", ":", "/", "/", "b">>

\* State of main.rs after main() has built it from the initial transaction
MainState ==
    Bind(transaction(Url_parse(InitialUrl).v), LAMBDA o :
         [current_line |-> 0,
          content |-> o.result.v.content[1],
          mode |-> "Normal",
          current_url |-> Url_parse(InitialUrl).v,
          last_status_code |-> o.result.v.status_code])

MainDrawn(st) ==
    [current_line |-> st.current_line, content |-> st.content,
     current_url |-> st.current_url, last_status_code |-> st.last_status_code]

\* State::render_page of main.rs
main_render_page(x) == [x EXCEPT !.screen = Some(MainDrawn(x.st))]

\* Sender::send(..).unwrap()
main_send(x, receiver, event) ==
    IF receiver THEN [x EXCEPT !.send = Append(@, event)] ELSE [x EXCEPT !.panic = TRUE]

\* State::down, State::up, State::go, State::quit, State::enter of main.rs
main_down(x, receiver) ==
    main_send([x EXCEPT !.st.current_line = @ + 1], receiver, Redraw)
main_up(x, receiver) ==
    IF x.st.current_line = 0 THEN [x EXCEPT !.panic = TRUE]
    ELSE main_send([x EXCEPT !.st.current_line = @ - 1], receiver, Redraw)
main_go(x) == [x EXCEPT !.st.mode = "Input", !.panic = TRUE]
main_quit(x, receiver) == main_send(x, receiver, Terminate)
main_enter(x, receiver) ==
    IF x.st.current_line >= Len(Body(x.st.content)) THEN [x EXCEPT !.panic = TRUE]
    ELSE Bind(Line_parse(Body(x.st.content)[x.st.current_line + 1]), LAMBDA line :
              IF line.kind = "Link"
              THEN main_send([x EXCEPT !.st.mode = "Loading"], receiver, Navigate(line.url))
              ELSE x)

\* The key arm of the loop of main(); quit leaves the loop
MainKey(x, code, receiver) ==
    IF x.st.mode = "Loading"
    THEN IF code = "q" THEN [main_quit(x, receiver) EXCEPT !.quit = TRUE] ELSE x
    ELSE IF x.st.mode = "Normal"
    THEN IF code = "q" THEN [main_quit(x, receiver) EXCEPT !.quit = TRUE]
         ELSE IF code = "g" THEN main_go(x)
         ELSE IF code = "j" THEN main_down(x, receiver)
         ELSE IF code = "k" THEN main_up(x, receiver)
         ELSE IF code = "Enter" THEN main_enter(x, receiver)
         ELSE x
    ELSE [x EXCEPT !.panic = TRUE]

\* The keys the user presses in a state
MainKeys(st) ==
    {"q", "g", "k", "Enter", "x"}
    \cup (IF st.current_line < MaxIndex THEN {"j"} ELSE {})

MainStep(st, drawn) ==
    [st |-> st, screen |-> drawn, send |-> <<>>, panic |-> FALSE, quit |-> FALSE]

MainInit ==
    /\ state = MainState
    /\ screen = Some(MainDrawn(MainState))
    /\ lock = "none"
    /\ poisoned = FALSE
    /\ chan = <<>>
    /\ rx = TRUE
    /\ tasks = <<>>
    /\ pcIn = "read"
    /\ pcW = "recv"
    /\ wEvent = None
    /\ sent = <<>>
    /\ consumed = <<>>
    /\ call = None

\* main(): read() returns a key event and the thread takes the lock
MainRead ==
    /\ pcIn = "read"
    /\ IF poisoned
       THEN pcIn' = "panicked" /\ lock' = lock
       ELSE lock = "none" /\ lock' = "input" /\ pcIn' = "handle"
    /\ UNCHANGED <<state, screen, poisoned, chan, rx, tasks, pcW, wEvent, sent, consumed>>
    /\ UNCHANGED call

\* main(): the key is handled and the guard is dropped
MainHandle(code) ==
    /\ pcIn = "handle"
    /\ code \in MainKeys(state)
    /\ \E x \in {MainKey(MainStep(state, screen), code, rx)} :
           /\ Len(chan) + Len(x.send) <= MaxChan
           /\ state' = x.st
           /\ screen' = x.screen
           /\ chan' = chan \o x.send
           /\ poisoned' = x.panic
           /\ lock' = "none"
           /\ pcIn' = IF x.panic THEN "panicked" ELSE IF x.quit THEN "stopped" ELSE "read"
    /\ UNCHANGED <<rx, tasks, pcW, wEvent, sent, consumed>>
    /\ UNCHANGED call

\* handle_event_loop of main.rs: recv() returns an event; Terminate ends
\* the loop
MainRecv ==
    /\ pcW = "recv"
    /\ chan # <<>>
    /\ chan' = IF recv(chan).type = "Terminate" THEN <<>> ELSE Tail(chan)
    /\ rx' = (recv(chan).type # "Terminate")
    /\ pcW' = IF recv(chan).type = "Terminate" THEN "stopped" ELSE "lock"
    /\ wEvent' = IF recv(chan).type = "Terminate" THEN None ELSE Some(recv(chan))
    /\ UNCHANGED <<state, screen, lock, poisoned, tasks, pcIn, sent, consumed>>
    /\ UNCHANGED call

\* handle_event_loop of main.rs: the arm of the event takes the lock; the
\* Navigate arm goes on, with the guard alive, to its transaction
MainLock ==
    /\ pcW = "lock"
    /\ IF poisoned
       THEN /\ pcW' = "panicked"
            /\ rx' = FALSE
            /\ chan' = <<>>
            /\ lock' = lock
       ELSE /\ lock = "none"
            /\ lock' = "worker"
            /\ pcW' = IF wEvent[1].type = "Navigate" THEN "transact" ELSE "redraw"
            /\ UNCHANGED <<rx, chan>>
    /\ UNCHANGED <<state, screen, poisoned, tasks, pcIn, wEvent, sent, consumed>>
    /\ UNCHANGED call

\* The Redraw arm
MainRedraw ==
    /\ pcW = "redraw"
    /\ screen' = Some(MainDrawn(state))
    /\ lock' = "none"
    /\ pcW' = "recv"
    /\ wEvent' = None
    /\ UNCHANGED <<state, poisoned, chan, rx, tasks, pcIn, sent, consumed>>
    /\ UNCHANGED call

\* The URL of the Navigate arm
main_qualify_url(st, url_or_path) ==
    Bind(Url_parse(url_or_path), LAMBDA parsed :
         IF parsed.ok THEN Ok(parsed.v)
         ELSE IF parsed.e = "RelativeUrlWithoutBase"
         THEN Bind(Url_join(set_fragment_none(set_query_none(st.current_url)),
                            url_or_path), LAMBDA joined :
                   IF joined.ok THEN Ok(joined.v) ELSE Panic("unwrap on Err"))
         ELSE Panic(parsed.e))

\* What the Navigate arm does with the outcome o of the transaction for url
main_navigate(x, url, o) ==
    IF o.panic THEN [x EXCEPT !.panic = TRUE]
    ELSE IF ~o.result.ok THEN [x EXCEPT !.st.mode = "Normal"]
    ELSE IF o.result.v.kind = "RedirectLoop" THEN [x EXCEPT !.panic = TRUE]
    ELSE [main_render_page([x EXCEPT !.st.content = o.result.v.content[1],
                                     !.st.current_url = url,
                                     !.st.last_status_code = o.result.v.status_code,
                                     !.st.current_line = 0])
            EXCEPT !.st.mode = "Normal"]

\* The Navigate arm: the transaction returns and its result is applied
MainTransact ==
    /\ pcW = "transact"
    /\ \E url \in {main_qualify_url(state, wEvent[1].url)} :
       \E x \in {IF url.panic THEN [MainStep(state, screen) EXCEPT !.panic = TRUE]
                 ELSE main_navigate(MainStep(state, screen), url.v, transaction(url.v))} :
           /\ state' = x.st
           /\ screen' = x.screen
           /\ poisoned' = x.panic
           /\ lock' = "none"
           /\ pcW' = IF x.panic THEN "panicked" ELSE "recv"
           /\ rx' = ~x.panic
           /\ chan' = IF x.panic THEN <<>> ELSE chan
    /\ wEvent' = None
    /\ UNCHANGED <<tasks, pcIn, sent, consumed>>
    /\ UNCHANGED call

MainNext ==
    \/ MainRead
    \/ \E code \in MainKeys(state) : MainHandle(code)
    \/ MainRecv
    \/ MainLock
    \/ MainRedraw
    \/ MainTransact

SpecMain == MainInit /\ [][MainNext]_vars

\* ------------------------------------------------- one navigation at a time
(* SpecTx follows single navigations through the spawned thread and the    *)
(* worker loop, for every class of answer a server gives.  It starts where *)
(* State::request has just spawned the thread: after `go <url>` and Enter  *)
(* in the input line, or after Enter on a link of the displayed document.  *)

\* The URLs navigated to: one per host of Net, a host that does not
\* resolve (u) and a URL without a host
TxUrls ==
    {<<"g", ":", "/", "/", h>> :
        h \in {"a", "b", "r", "p", "t", "e", "s", "d", "n", "m", "x", "h", "z", "u"}}
    \cup {<<"g", ":", "/", "a">>}

\* n presses of `j`
RECURSIVE Downs(_, _)
Downs(x, n) == IF n = 0 THEN x ELSE down(Downs(x, n - 1))

\* The State once the document of url_string is displayed
Displayed(st, url_string) ==
    transaction_complete(Step(st, None),
                         transaction(Url_parse(url_string).v).result.v,
                         Url_parse(url_string).v)

\* The State before the navigation: nothing displayed yet, or the document
\* of host a with the active line on one of its links
TxBases ==
    {new_with_tx(sz[1], sz[2]) : sz \in StartSizes}
    \cup {Downs(Displayed(new_with_tx(sz[1], sz[2]), <<"g", ":", "/", "/", "a">>), n).st :
            sz \in StartSizes, n \in 0..2}

\* The steps that dispatch the navigation
TxStarts ==
    {InputEnter(Step([b EXCEPT !.mode = "Input", !.input = <<"g", "o", SP>> \o u], None),
                TRUE) : b \in TxBases, u \in TxUrls}
    \cup {enter(Step(b, None)) : b \in TxBases}

TxInit ==
    /\ \E x \in TxStarts :
           /\ ~x.panic
           /\ Len(x.spawn) = 1
           /\ state = x.st
           /\ screen = x.screen
           /\ tasks = <<Task(x.spawn[1])>>
    /\ lock = "none"
    /\ poisoned = FALSE
    /\ chan = <<>>
    /\ rx = TRUE
    /\ pcIn = "read"
    /\ pcW = "recv"
    /\ wEvent = None
    /\ sent = <<>>
    /\ consumed = <<>>
    /\ call = None

TxNext ==
    \/ \E i \in 1..Len(tasks) : TaskStep(i)
    \/ WorkerRecv
    \/ WorkerApply

SpecTx == TxInit /\ [][TxNext]_vars

\* ------------------------------------------------- moving in a document
(* SpecView is the program with the document V displayed in a terminal    *)
(* too small for it: the user moves the active line with `j` and `k`.      *)
(* V was requested twice: the first TransactionComplete has been applied,  *)
(* the thread of the second request is still running.                      *)

\* The sizes the terminal is resized to once V is displayed
ViewSizes == {<<5, 3>>, <<5, 4>>, <<5, 5>>, <<7, 4>>}

\* The keys of the user: `k`, and `j` up to one line past the document
ViewEvents(st) ==
    {KeyChar("k")}
    \cup (IF st.current_line_index < Len(content(st)) THEN {KeyChar("j")} ELSE {})

\* V is displayed in a terminal of the size sz
ViewStart(sz) ==
    new_size(Displayed(new_with_tx(76, 12), <<"g", ":", "/", "/", "v">>), sz[1], sz[2])

\* The URL of V, the thread of a request for V that has sent its event, and
\* that event
ViewUrl == Url_parse(<<"g", ":", "/", "/", "v">>).v
ViewExited ==
    [Task(ViewUrl) EXCEPT !.pc = "exited",
                          !.requests = transaction(ViewUrl).requests,
                          !.redirects = transaction(ViewUrl).redirects,
                          !.sent = "ok"]
ViewEvent == EventOf(transaction(ViewUrl).result, ViewUrl)

ViewInit ==
    /\ \E sz \in ViewSizes :
           /\ state = ViewStart(sz).st
           /\ screen = ViewStart(sz).screen
    /\ lock = "none"
    /\ poisoned = FALSE
    /\ chan = <<>>
    /\ rx = TRUE
    /\ tasks = <<ViewExited, Task(ViewUrl)>>
    /\ pcIn = "read"
    /\ pcW = "recv"
    /\ wEvent = None
    /\ sent = <<ViewEvent>>
    /\ consumed = <<ViewEvent>>
    /\ call = None

\* input::run: the key is handled and the guard is dropped
ViewHandle(event) ==
    /\ pcIn = "handle"
    /\ event \in ViewEvents(state)
    /\ \E x \in {run(Step(state, screen), event, rx)} :
           /\ state' = x.st
           /\ screen' = x.screen
           /\ poisoned' = x.panic
           /\ lock' = "none"
           /\ pcIn' = IF x.panic THEN "panicked" ELSE "read"
    /\ UNCHANGED <<chan, rx, tasks, pcW, wEvent, sent, consumed, call>>

ViewNext ==
    \/ InputRead
    \/ \E event \in ViewEvents(state) : ViewHandle(event)
    \/ \E i \in 1..Len(tasks) : TaskStep(i)
    \/ WorkerRecv
    \/ WorkerApply

SpecView == ViewInit /\ [][ViewNext]_vars

\* ------------------------------------------------- the command history
(* SpecInput is the input loop of a user who types short commands and     *)
(* walks the history with Up and Down.  The state carries the history of  *)
(* Input.  Tasks are spawned but do not run, and the worker loop does not *)
(* receive.                                                               *)

\* The most commands committed in one session
MaxSession == 2

\* The most characters typed into the buffer
MaxTyped == 2

\* The contents of target/history.txt at startup: nothing, one command
\* that is none, a navigation to a URL and one to a path, or a navigation
\* to a URL that does not parse
DurableHistories ==
    {<<>>, <<<<"x">>>>, <<GoPrefix \o <<"a">>, <<"g", "o", SP, "x">>>>,
     <<GoPrefix \o <<"^">>>>}

\* Input::new
Input_new(existing) ==
    [history_index |-> None, existing_history |-> existing, local_history |-> <<>>]

\* All entries of the history, oldest first
History(st) == st.existing_history \o st.local_history

\* The keys of the user
InputEvents(st) ==
    IF st.mode = "Normal" THEN {KeyChar(":")}
    ELSE {KeyDown, KeyEsc}
         \cup (IF st.history_index = None \/ st.history_index[1] < Len(History(st))
               THEN {KeyUp} ELSE {})
         \cup (IF Len(st.input) < MaxTyped THEN {KeyChar("x"), KeyChar("q")} ELSE {})
         \cup (IF st.input = <<>> \/ Len(st.local_history) < MaxSession
               THEN {KeyEnter} ELSE {})

InputInit ==
    /\ \E existing \in DurableHistories :
           state = new_with_tx(76, 12) @@ Input_new(existing)
    /\ screen = None
    /\ lock = "none"
    /\ poisoned = FALSE
    /\ chan = <<>>
    /\ rx = TRUE
    /\ tasks = <<>>
    /\ pcIn = "read"
    /\ pcW = "recv"
    /\ wEvent = None
    /\ sent = <<>>
    /\ consumed = <<>>
    /\ call = None

\* input::run: the key is handled and the guard is dropped
InputKeyHandle(event) ==
    /\ pcIn = "handle"
    /\ event \in InputEvents(state)
    /\ \E x \in {run(Step(state, screen), event, rx)} :
           /\ Len(tasks) + Len(x.spawn) <= MaxTasks
           /\ state' = x.st
           /\ screen' = x.screen
           /\ tasks' = tasks \o [i \in 1..Len(x.spawn) |-> Task(x.spawn[i])]
           /\ chan' = chan \o x.send
           /\ sent' = sent \o x.send
           /\ poisoned' = x.panic
           /\ lock' = "none"
           /\ pcIn' = IF x.panic THEN "panicked"
                      ELSE IF x.st.terminated THEN "stopped" ELSE "read"
    /\ UNCHANGED <<rx, pcW, wEvent, consumed, call>>

InputNext ==
    \/ InputRead
    \/ \E event \in InputEvents(state) : InputKeyHandle(event)

SpecInput == InputInit /\ [][InputNext]_vars

\* ------------------------------------------------------ functions by call
(* SpecCall applies a function of the program to each of a set of          *)
(* arguments: call holds the function, the arguments and, once the         *)
(* function has returned, its result.  The program itself does not run.    *)

Called(fn, arg) == [fn |-> fn, arg |-> arg, ret |-> None]

\* Header lines: a status, the rest of the line and the line end
HeaderCodes ==
    {<<>>, <<"2">>, <<"3">>, <<"9">>, <<"x">>, <<"2", "0">>, <<"3", "0">>, <<"4", "0">>,
     <<"5", "1">>, <<"2", "x">>, <<"9", "x">>, <<"2", "0", "0">>}
HeaderMetas ==
    {<<>>, <<SP>>, <<SP, "/", "f", "o", "o">>, <<SP, SP, "/", "f", "o", "o", SP>>,
     <<SP, "N", "o", "t", SP, "f", "o", "u", "n", "d">>,
     <<SP, "t", "e", "x", "t", "/", "g", "e", "m", "i", "n", "i">>}
HeaderEnds == {<<>>, <<CR, LF>>}
Headers == {c \o m \o e : c \in HeaderCodes, m \in HeaderMetas, e \in HeaderEnds}

\* The two StatusCode::parse of the sources
ParseOfGemini == "gemini::StatusCode::parse"
ParseOfStatusCode == "gemini::status_code::StatusCode::parse"

\* Current URLs: none before the first document, else the URL of a
\* document, which has a host
CurrentUrls ==
    {None}
    \cup {Some(Url_parse(u).v) :
            u \in {<<"g", ":", "/", "/", "a">>,
                   <<"g", ":", "/", "/", "a", "/">>,
                   <<"g", ":", "/", "/", "a", "/", "d", "/", "p">>,
                   <<"g", ":", "/", "/", "a", "/", "d", "/", "p", "?", "q">>,
                   <<"g", ":", "/", "/", "a", "/", "d", "/", "p", "#", "f">>,
                   <<"g", ":", "/", "/", "a", "/", "d", "/", "p", "?", "q", "#", "f">>,
                   <<"g", ":", "/", "/", "a", "?", "q", "#", "f">>}}

\* What a link or a `go` command names: absolute URLs, paths, and
\* references with a query or a fragment
UrlOrPaths ==
    {<<"g", ":", "/", "/", "b">>,
     <<"g", ":", "/", "/", "b", "/", "x", "?", "y", "#", "z">>,
     <<"h", ":", "/", "x">>,
     <<"/", "x">>, <<"/", "x", "/", "y">>, <<"/">>,
     <<"x">>, <<"x", "/", "y">>, <<"x", "/">>,
     <<>>,
     <<"/", "x", "?", "y">>, <<"x", "#", "z">>, <<"?", "y">>, <<"#", "z">>}

QualifyUrl == "State::qualify_url"

\* Lines of a document: a start (the link marker or not), whitespace, a
\* URL, and what follows the URL
LineStarts == {LinkMarker, <<>>, <<SP, "=", ">">>}
LineGaps == {<<>>, <<SP>>, <<SP, SP>>, <<TAB>>}
LineUrls == {<<>>, <<"u">>, <<"g", ":", "/", "/", "a">>}
LineNames ==
    {<<>>, <<SP>>, <<SP, "n">>, <<TAB, "n", SP>>, <<SP, "n", SP, "m">>,
     <<SP, SP, "n", SP, SP, "m", SP>>, <<SP, "n", SP, TAB, "m">>}
Lines ==
    {s \o g \o u \o n : s \in LineStarts, g \in LineGaps, u \in LineUrls, n \in LineNames}

LineParse == "Line::parse"

\* Documents to render, as parsed lines: every document of up to three
\* lines out of an empty line, a line of three characters and a link, and
\* documents of seven and eight empty lines
RenderLines ==
    {[kind |-> "Normal", text |-> <<>>],
     [kind |-> "Normal", text |-> <<"a", "b", "c">>],
     [kind |-> "Link", url |-> <<"u">>, name |-> None]}
RenderDocs ==
    UNION {[1..n -> RenderLines] : n \in 1..3}
    \cup {[i \in 1..n |-> [kind |-> "Normal", text |-> <<>>]] : n \in {7, 8}}

\* Terminal heights, scroll offsets and the terminal width of the renders
RenderHeights == 1..3
RenderOffsets == 0..3
RenderWidths == {2}

\* The active lines of the renders: the first or the second line
RenderIndexes(d) == {i \in {0, 1} : i < Len(d)}

RenderPage == "Terminal::render_page"

\* The States a resize event meets (the start page, the document V) and
\* the sizes it brings
NewSizeStates ==
    {new_with_tx(76, 12),
     transaction_complete(
         Step(new_with_tx(76, 12), None),
         ResponseBody(Some("V"),
                      [variant |-> "Success", code |-> <<"2", "0">>,
                       mime_type |-> Some([type |-> <<"t", "e", "x", "t">>,
                                           subtype |-> <<"g", "e", "m", "i", "n", "i">>,
                                           charset |-> Some(<<"u", "t", "f", "-", "8">>)])]),
         ViewUrl).st}
NewSizeWidths == {1, 4, 5, 75, 76}
NewSizeHeights == {1, 11, 12}
NewSize == "State::new_size"

Calls ==
    {Called(fn, h) : fn \in {ParseOfGemini, ParseOfStatusCode}, h \in Headers}
    \cup {Called(QualifyUrl, [st |-> [current_url |-> b], url_or_path |-> c]) :
            b \in CurrentUrls, c \in UrlOrPaths}
    \cup {Called(LineParse, l) : l \in Lines}
    \cup UNION {{Called(RenderPage, [content |-> d, scroll_offset |-> o, width |-> w,
                                      height |-> h, current_line_index |-> i]) :
                   o \in RenderOffsets, w \in RenderWidths, h \in RenderHeights,
                   i \in RenderIndexes(d)} : d \in RenderDocs}
    \cup {Called(NewSize, [st |-> st, width |-> w, height |-> h]) :
            st \in NewSizeStates, w \in NewSizeWidths, h \in NewSizeHeights}

CallInit ==
    /\ call \in Calls
    /\ \E sz \in StartSizes : state = new_with_tx(sz[1], sz[2])
    /\ screen = None
    /\ lock = "none"
    /\ poisoned = FALSE
    /\ chan = <<>>
    /\ rx = TRUE
    /\ tasks = <<>>
    /\ pcIn = "read"
    /\ pcW = "recv"
    /\ wEvent = None
    /\ sent = <<>>
    /\ consumed = <<>>

\* StatusCode::parse returns
ParseReturn ==
    /\ call.fn \in {ParseOfGemini, ParseOfStatusCode}
    /\ call.ret = None
    /\ call' = [call EXCEPT !.ret = Some(IF call.fn = ParseOfGemini
                                          THEN StatusCode_parse(call.arg)
                                          ELSE status_code_StatusCode_parse(call.arg))]
    /\ UNCHANGED program

\* State::qualify_url returns
QualifyReturn ==
    /\ call.fn = QualifyUrl
    /\ call.ret = None
    /\ call' = [call EXCEPT !.ret = Some(qualify_url(call.arg.st, call.arg.url_or_path))]
    /\ UNCHANGED program

\* Line::parse returns
LineReturn ==
    /\ call.fn = LineParse
    /\ call.ret = None
    /\ call' = [call EXCEPT !.ret = Some(Line_parse(call.arg))]
    /\ UNCHANGED program

\* The loop of Terminal::render_page has run: the rows painted and the
\* row of the active line
RenderReturn ==
    /\ call.fn = RenderPage
    /\ call.ret = None
    /\ call' = [call EXCEPT !.ret =
                   Some(RenderLoop([content |-> call.arg.content,
                                    width |-> call.arg.width,
                                    height |-> call.arg.height,
                                    current_line_index |-> call.arg.current_line_index,
                                    start_printing_from_row |-> call.arg.scroll_offset + 1],
                                   1, 1, 0, 0, None, <<>>))]
    /\ UNCHANGED program

\* State::new_size returns, or panics
NewSizeReturn ==
    /\ call.fn = NewSize
    /\ call.ret = None
    /\ call' = [call EXCEPT !.ret =
                   Some(new_size(Step(call.arg.st, None), call.arg.width, call.arg.height))]
    /\ UNCHANGED program

CallNext ==
    \/ ParseReturn
    \/ QualifyReturn
    \/ LineReturn
    \/ RenderReturn
    \/ NewSizeReturn

SpecCall == CallInit /\ [][CallNext]_vars

\* ------------------------------------------------------------- properties

IsPrefix(a, b) == Len(a) <= Len(b) /\ SubSeq(b, 1, Len(a)) = a

IsBody(e) == e.type = "TransactionComplete" /\ e.response.kind = "Body"
IsTransactionEvent(e) == e.type # "TerminateWorker"

\* The completions with a body the worker loop has received
Completions == SelectSeq(consumed, IsBody)

\* Every received event has been applied
AllApplied == lock # "worker" /\ pcW # "panicked"

\* C1: last-processed-wins.  Once every received event is applied, the
\* document, the current URL and the last status are those of the completion
\* the worker loop applied last (those of startup when there is none),
\* whatever the order in which the navigations were requested.
C1_LastAppliedWins ==
    AllApplied =>
        IF Completions = <<>>
        THEN /\ state.content = None
             /\ state.current_url = None
             /\ state.last_status_code = None
        ELSE /\ state.content = Completions[Len(Completions)].response.content
             /\ state.current_url = Some(Completions[Len(Completions)].url)
             /\ state.last_status_code
                  = Some(Completions[Len(Completions)].response.status_code)

\* Two navigations overlapped, the completion of the second was applied
\* first, and the document is the one of the first.
C1_Witness ==
    /\ Len(tasks) = 2
    /\ tasks[1].url # tasks[2].url
    /\ Len(consumed) = 2
    /\ AllApplied
    /\ IsBody(consumed[1]) /\ consumed[1].url = tasks[2].url
    /\ IsBody(consumed[2]) /\ consumed[2].url = tasks[1].url
    /\ consumed[1].response.content # consumed[2].response.content
    /\ state.content = consumed[2].response.content
    /\ state.current_url = Some(tasks[1].url)

\* C2: applying a TransactionComplete that carries a body sets loading to
\* false and the mode to Normal, replaces the document, the current URL and
\* the last status by those of the event and puts the active line at 0.
C2_CompleteApplied ==
    [][(pcW = "apply" /\ pcW' # "apply" /\ IsBody(wEvent[1]))
         => /\ state'.loading = FALSE
            /\ state'.mode = "Normal"
            /\ state'.content = wEvent[1].response.content
            /\ state'.current_url = Some(wEvent[1].url)
            /\ state'.last_status_code = Some(wEvent[1].response.status_code)
            /\ state'.current_line_index = 0]_vars

\* A second document has replaced the first while the user was typing a
\* command: the mode is Normal with the typed characters still in the buffer.
C2_Witness ==
    /\ Len(Completions) = 2
    /\ Completions[1].url # Completions[2].url
    /\ consumed[Len(consumed)] = Completions[2]
    /\ AllApplied
    /\ state.current_url = Some(Completions[2].url)
    /\ state.mode = "Normal"
    /\ ~state.loading
    /\ state.current_line_index = 0
    /\ state.input # <<>>

\* C3: applying a TransactionError sets loading to false, the mode to Normal
\* and the error message to the text of the error, and leaves the document,
\* the current URL, the last status, the active line and the scroll offset
\* as they were.
C3_ErrorApplied ==
    [][(pcW = "apply" /\ pcW' # "apply" /\ wEvent[1].type = "TransactionError")
         => /\ state'.loading = FALSE
            /\ state'.mode = "Normal"
            /\ state'.error_message = Some(to_string(wEvent[1].e))
            /\ state'.content = state.content
            /\ state'.current_url = state.current_url
            /\ state'.last_status_code = state.last_status_code
            /\ state'.current_line_index = state.current_line_index
            /\ state'.scroll_offset = state.scroll_offset]_vars

\* The error of a failed navigation is shown over the document it was
\* started from, the active line still on the link.
C3_Witness ==
    /\ consumed # <<>>
    /\ consumed[Len(consumed)].type = "TransactionError"
    /\ AllApplied
    /\ state.error_message = Some(to_string(consumed[Len(consumed)].e))
    /\ state.content # None
    /\ state.current_line_index > 0
    /\ state.mode = "Normal"
    /\ ~state.loading

\* C4: every thread spawned for a navigation ends by putting one event on
\* the channel; none ends without an event.
C4_EveryTaskEmits ==
    \A i \in 1..Len(tasks) : tasks[i].pc # "panicked"

\* Navigations dispatched whose event the worker loop has not received
Outstanding == Len(tasks) - Len(SelectSeq(consumed, IsTransactionEvent))

\* C5: once every received event is applied, loading is true exactly when a
\* dispatched transaction is outstanding.
C5_LoadingIffOutstanding ==
    AllApplied => (state.loading <=> Outstanding > 0)

\* C6 as stated: when the worker loop has consumed TerminateWorker, every
\* event that was put on the channel before has been consumed.
C6_AllSentConsumed ==
    pcW = "stopped" => consumed = sent

\* C6: the worker loop consumes the events in the order sent, each once (the
\* events consumed are a prefix of the events sent); when it stops it has
\* consumed the events up to TerminateWorker, and no event behind it.
C6_ConsumedInOrder ==
    /\ IsPrefix(consumed, sent)
    /\ pcW = "stopped" =>
         /\ consumed # <<>>
         /\ consumed[Len(consumed)] = TerminateWorker
         /\ \A i \in 1..(Len(consumed) - 1) : consumed[i] # TerminateWorker

\* The worker loop has stopped after it applied an event, and an event sent
\* while TerminateWorker was in the channel is left unconsumed.
C6_Witness ==
    /\ pcW = "stopped"
    /\ Len(consumed) >= 2
    /\ Len(sent) > Len(consumed)

\* C7: once the worker loop has consumed TerminateWorker the state, the
\* screen and the channel do not change any more, and a thread whose
\* transaction returns then exits on its failed send (it panics only when
\* the transaction itself does).
C7_LateCompletionDiscarded ==
    [][pcW = "stopped"
         => /\ state' = state
            /\ screen' = screen
            /\ chan' = chan
            /\ consumed' = consumed
            /\ \A i \in 1..Len(tasks) :
                 (tasks[i].pc = "running" /\ tasks'[i].pc # "running")
                   => /\ tasks'[i].pc = (IF transaction(tasks[i].url).panic
                                         THEN "panicked" ELSE "exited")
                      /\ tasks'[i].pc = "exited" => tasks'[i].sent = "err"]_vars

\* A transaction has returned after the worker loop stopped; its thread has
\* exited on the failed send.
C7_Witness ==
    /\ pcW = "stopped"
    /\ \E i \in 1..Len(tasks) : tasks[i].pc = "exited" /\ tasks[i].sent = "err"

\* C8: the thread that holds the lock is not waiting for a terminal event,
\* not waiting on the channel and not running a network transaction.
C8_LockFreeDuringIO ==
    /\ ~(lock = "input" /\ pcIn = "read")
    /\ ~(lock = "worker" /\ pcW \in {"recv", "lock"})
    /\ ~(lock = "worker" /\ pcW = "transact")

\* C9: whenever the lock is free, what the last render drew is the current
\* state.
C9_RenderedEqualsState ==
    (lock = "none" /\ ~poisoned /\ screen # None) => screen[1] = Drawn(state)

\* C10: a transaction follows at most 5 redirects, so it sends at most 6
\* requests.
C10_FiveRedirects ==
    \A i \in 1..Len(tasks) : tasks[i].redirects <= 5 /\ tasks[i].requests <= 6

\* The status line the server of url answers with, parsed
Answer(url) == StatusCode_parse(Net(host_str(url)[1]).header)

\* The server of url answers with a redirect whose target is no absolute URL
AnswersRelativeRedirect(url) ==
    /\ host_str(url) # None
    /\ Net(host_str(url)[1]).connects
    /\ Answer(url).ok
    /\ Answer(url).v.variant = "Redirect"
    /\ Answer(url).v.url # None
    /\ ~Url_parse(Answer(url).v.url[1]).ok

\* C11: a redirect to a relative path is qualified against the URL of the
\* request and the transaction goes on with a second request to the
\* resulting URL; the thread of the navigation does not panic.
C11_RelativeRedirectQualified ==
    \A i \in 1..Len(tasks) :
        (tasks[i].pc # "running" /\ AnswersRelativeRedirect(tasks[i].url))
            => (tasks[i].pc = "exited" /\ tasks[i].requests >= 2)

\* The header line the server of url sends
HeaderOf(url) == Net(host_str(url)[1]).header

\* The server of url answers with a 4x or 5x status
AnswersFailure(url) ==
    /\ host_str(url) # None
    /\ Net(host_str(url)[1]).connects
    /\ Len(HeaderOf(url)) >= 3
    /\ HeaderOf(url)[1] \in {"4", "5"}
    /\ HeaderOf(url)[3] = SP

\* The error of a failure status: its kind by the first digit, the code and
\* the message of the header
IsFailureOf(e, header) ==
    /\ e.kind = (IF header[1] = "4" THEN "TemporaryFailure" ELSE "PermanentFailure")
    /\ e.code = Take(header, 2)
    /\ e.meta = trim(Drop(header, 3))

\* C12: a transaction answered with a 4x or 5x status makes one request and
\* returns the TemporaryFailure or PermanentFailure error with the code and
\* the message of the header, which is sent as a TransactionError event.
C12_FailureIsTransactionError ==
    \A i \in 1..Len(tasks) :
        (tasks[i].pc # "running" /\ AnswersFailure(tasks[i].url))
            => /\ tasks[i].pc = "exited"
               /\ tasks[i].requests = 1
               /\ \E k \in 1..Len(sent) :
                      /\ sent[k].type = "TransactionError"
                      /\ IsFailureOf(sent[k].e, HeaderOf(tasks[i].url))

\* The event of a transaction that ended at the redirect bound
IsRedirectBound(e) ==
    \/ e.type = "TransactionComplete" /\ e.response.kind = "RedirectLoop"
    \/ e.type = "TransactionError" /\ e.e.kind = "RedirectLoop"

\* C13: when the worker loop has applied the event of a transaction that
\* ended at the redirect bound, an error message is set, the session is in
\* Normal mode and not loading, the document displayed before is still
\* displayed, and neither the worker loop nor the lock is lost to a panic.
C13_RedirectBoundIsError ==
    [][(pcW = "apply" /\ pcW' # "apply" /\ IsRedirectBound(wEvent[1]))
          => /\ pcW' = "recv"
             /\ ~poisoned'
             /\ state'.error_message # None
             /\ state'.mode = "Normal"
             /\ ~state'.loading
             /\ state'.content = state.content
             /\ state'.current_url = state.current_url]_vars

\* The transaction for url fails in one of the classes of failure: the URL
\* has no host, the host does not resolve, the connection is refused, the
\* header is malformed, a redirect has no target, the media type of a
\* success is not text/gemini, or reading the body fails.
FailureClass(url) ==
    \/ host_str(url) = None
    \/ ~Net(host_str(url)[1]).resolves
    \/ ~Net(host_str(url)[1]).connects
    \/ ~Answer(url).ok
    \/ Answer(url).v.variant = "Redirect" /\ Answer(url).v.url = None
    \/ /\ Answer(url).v.variant = "Success"
       /\ \/ Answer(url).v.mime_type[1].type # Text
          \/ Answer(url).v.mime_type[1].subtype # Gemini
          \/ Net(host_str(url)[1]).read_error

\* C14: the transaction never panics: in every class of failure the thread
\* of the navigation gets a TransactionError back, sends it as an event and
\* exits.
C14_FailuresAreTyped ==
    \A i \in 1..Len(tasks) :
        (tasks[i].pc # "running" /\ FailureClass(tasks[i].url))
            => /\ tasks[i].pc = "exited"
               /\ \E k \in 1..Len(sent) : sent[k].type = "TransactionError"

\* A call of StatusCode::parse (of either source) has returned
Parsed == call # None /\ call.fn \in {ParseOfGemini, ParseOfStatusCode} /\ call.ret # None

\* C15: parsing the empty header, a header of one character, or a header
\* whose first character is none of 2, 3, 4, 5 returns a parse error and
\* does not panic.
C15_MalformedIsParseError ==
    (Parsed /\ (Len(call.arg) <= 1 \/ call.arg[1] \notin {"2", "3", "4", "5"}))
        => (~call.ret[1].panic /\ ~call.ret[1].ok)

\* The code of a header: the first two characters of what precedes the
\* first space
CodeOf(header) ==
    Take(IF FirstIdx(header, IsSP) = 0 THEN header
         ELSE Take(header, FirstIdx(header, IsSP) - 1), 2)

VariantOf(c) ==
    IF c = "2" THEN "Success"
    ELSE IF c = "3" THEN "Redirect"
    ELSE IF c = "4" THEN "TemporaryFailure"
    ELSE "PermanentFailure"

\* C16: for a header whose code has two characters and begins with 2, 3, 4
\* or 5, parsing succeeds and the first character decides the variant:
\* Success, Redirect, TemporaryFailure, PermanentFailure, with or without
\* a meta field.
C16_FirstCharSelectsVariant ==
    (Parsed /\ Len(CodeOf(call.arg)) = 2 /\ CodeOf(call.arg)[1] \in {"2", "3", "4", "5"})
        => /\ call.ret[1].ok
           /\ call.ret[1].v.variant = VariantOf(CodeOf(call.arg)[1])

\* A header without meta field, "51", has been parsed by the parser of the
\* transaction into a PermanentFailure
C16_Witness ==
    /\ Parsed
    /\ call.fn = ParseOfGemini
    /\ call.arg = <<"5", "1">>
    /\ call.ret[1].ok
    /\ call.ret[1].v.variant = "PermanentFailure"

\* C17: the code of every StatusCode that parsing returns is exactly two
\* ASCII digits.
C17_CodeIsTwoDigits ==
    (Parsed /\ call.ret[1].ok)
        => /\ Len(call.ret[1].v.code) = 2
           /\ call.ret[1].v.code[1] \in Digit
           /\ call.ret[1].v.code[2] \in Digit

\* The meta field of a parsed StatusCode, None when the variant has none
MetaOf(v) ==
    IF v.variant = "Redirect" THEN v.url
    ELSE IF "meta" \in DOMAIN v THEN Some(v.meta)
    ELSE None

\* C18: the meta field of a parsed Redirect, TemporaryFailure or
\* PermanentFailure is what follows the first space of the header, with
\* the whitespace around it (the line end included) trimmed.
C18_MetaIsTrimmedRest ==
    (Parsed /\ call.ret[1].ok /\ call.ret[1].v.variant # "Success"
            /\ FirstIdx(call.arg, IsSP) # 0)
        => MetaOf(call.ret[1].v) = Some(trim(Drop(call.arg, FirstIdx(call.arg, IsSP))))

\* A call of State::qualify_url has returned
Qualified == call # None /\ call.fn = QualifyUrl /\ call.ret # None

\* The candidate is only a path: no scheme, no query, no fragment
IsPathOnly(c) == ~Url_parse(c).ok /\ FirstIdx(c, IsPathEnd) = 0

\* The path of base up to and including its last slash
DirOf(base) ==
    IF base.path = <<>> THEN <<"/">> ELSE Take(base.path, LastIdx(base.path, IsSlash))

\* An absolute candidate is returned as it parses, whatever the base
AbsoluteUnchanged ==
    (Qualified /\ Url_parse(call.arg.url_or_path).ok)
        => call.ret[1] = Ok(Url_parse(call.arg.url_or_path).v)

LineParsed == call # None /\ call.fn = LineParse /\ call.ret # None

\* What follows the marker of a link line, from its first character that
\* is no whitespace
AfterMarker(line) ==
    IF FirstIdx(Drop(line, 2), NotWs) = 0 THEN <<>>
    ELSE Drop(line, 1 + FirstIdx(Drop(line, 2), NotWs))

\* The URL token of a link line and what follows the token
TokenOf(line) ==
    IF FirstIdx(AfterMarker(line), IsWs) = 0 THEN AfterMarker(line)
    ELSE Take(AfterMarker(line), FirstIdx(AfterMarker(line), IsWs) - 1)
AfterToken(line) == Drop(AfterMarker(line), Len(TokenOf(line)))

\* s with every run of whitespace cut down to its first character
RunStarts(s) == {i \in 1..Len(s) : ~IsWs(s[i]) \/ i = 1 \/ ~IsWs(s[i - 1])}
Collapse(s) == [k \in 1..Cardinality(RunStarts(s)) |-> s[Nth(RunStarts(s), k)]]

\* C20: a line that begins with the marker and has a URL token after it,
\* with or without whitespace between the two, parses to a Link whose url
\* is the token and whose name is the rest of the line, trimmed and with
\* its inner runs of whitespace collapsed, or no name when the rest is
\* empty.
C20_LinkIsTokenAndName ==
    (LineParsed /\ StartsWith(call.arg, LinkMarker) /\ TokenOf(call.arg) # <<>>)
        => call.ret[1] = [kind |-> "Link",
                          url |-> TokenOf(call.arg),
                          name |-> IF trim(AfterToken(call.arg)) = <<>> THEN None
                                   ELSE Some(Collapse(trim(AfterToken(call.arg))))]

\* C21: parsing returns InvalidLink exactly for the lines that begin with
\* the marker and have no URL token after it, and returns every line that
\* does not begin with the marker as Normal with the text of the line.
C21_InvalidLinkIffNoToken ==
    LineParsed
        => /\ (call.ret[1].kind = "InvalidLink")
                <=> (StartsWith(call.arg, LinkMarker) /\ TokenOf(call.arg) = <<>>)
           /\ ~StartsWith(call.arg, LinkMarker)
                => call.ret[1] = [kind |-> "Normal", text |-> call.arg]

\* A call of Terminal::render_page has run its loop
Rendered == call # None /\ call.fn = RenderPage /\ call.ret # None

\* Rows of the first n lines of a document at a width
RECURSIVE RowsOf(_, _, _)
RowsOf(doc, n, width) ==
    IF n = 0 THEN 0 ELSE RowsOf(doc, n - 1, width) + render_line(doc[n], width)

TotalRows == RowsOf(call.arg.content, Len(call.arg.content), call.arg.width)

Min(a, b) == IF a < b THEN a ELSE b

\* C22: a render paints exactly the document rows s+1 .. s+min(H-1,
\* total_rows - s), in order, for the scroll offset s and the height H.
C22_PaintsWindow ==
    Rendered
        => call.ret[1].painted =
             [k \in 1..Min(call.arg.height - 1, TotalRows - call.arg.scroll_offset)
                |-> call.arg.scroll_offset + k]

\* A document with a wrapped line has been rendered from scroll offset 1
\* on a terminal of height 3, and rows 2 and 3 were painted of more rows
C22_Witness ==
    /\ Rendered
    /\ call.arg.height = 3
    /\ call.arg.scroll_offset = 1
    /\ \E i \in 1..Len(call.arg.content) :
           render_line(call.arg.content[i], call.arg.width) > 1
    /\ TotalRows > 3
    /\ call.ret[1].painted = <<2, 3>>

\* The document rows of the line with index i (from 0) of the displayed
\* document, and the last row of the visible window
FirstRowOf(st, i) == RowsOf(content(st), i, st.width) + 1
LastRowOf(st, i) == RowsOf(content(st), i + 1, st.width)
BottomRow(st) == st.scroll_offset + page_rows(st.height)

\* The input loop handles a key that moves the active line down to a line
\* of the document
DownMove ==
    /\ pcIn = "handle"
    /\ pcIn' # "handle"
    /\ state'.current_line_index = state.current_line_index + 1
    /\ state.current_line_index + 1 < Len(content(state))

\* C23: a down move to a line below the bottom visible row increases
\* scroll_offset by the number of wrapped rows of that line, and a down
\* move to a line that is fully visible leaves scroll_offset unchanged.
C23_DownScrollsByRevealedRows ==
    [][DownMove
         => /\ FirstRowOf(state, state.current_line_index + 1) > BottomRow(state)
                => state'.scroll_offset =
                     state.scroll_offset
                     + render_line(content(state)[state.current_line_index + 2], state.width)
            /\ (/\ FirstRowOf(state, state.current_line_index + 1) > state.scroll_offset
                /\ LastRowOf(state, state.current_line_index + 1) <= BottomRow(state))
                => state'.scroll_offset = state.scroll_offset]_vars

\* The input loop handles a key that moves the active line up from a line
\* on the first row of the visible window, with rows scrolled out above it
UpMoveAtTop ==
    /\ pcIn = "handle"
    /\ pcIn' # "handle"
    /\ state.current_line_index > 0
    /\ state.current_line_index < Len(content(state))
    /\ state'.current_line_index # state.current_line_index + 1
    /\ state.scroll_offset > 0
    /\ FirstRowOf(state, state.current_line_index) = state.scroll_offset + 1

\* C24: an up move from the first row of the visible window with
\* scroll_offset > 0 decreases scroll_offset, and the new active line is
\* inside the visible window after the move.
C24_UpScrollsIntoView ==
    [][UpMoveAtTop
         => /\ ~poisoned'
            /\ state'.current_line_index = state.current_line_index - 1
            /\ state'.scroll_offset < state.scroll_offset
            /\ FirstRowOf(state', state'.current_line_index) > state'.scroll_offset
            /\ FirstRowOf(state', state'.current_line_index) <= BottomRow(state')]_vars

\* The input loop is about to handle a key in Normal mode with the active
\* line on a line of the page
NormalAtLine ==
    /\ pcIn = "handle"
    /\ state.mode = "Normal"
    /\ state.current_line_index < Len(content(state))

ActiveLine == content(state)[state.current_line_index + 1]

\* What handling Enter does in the current state
EnterStep == handle_key_event(Step(state, screen), KeyEnter, rx)

\* Enter on a link while nothing is loading dispatches one navigation and
\* sets loading
EnterOnLinkDispatches ==
    (NormalAtLine /\ ActiveLine.kind = "Link" /\ ~state.loading)
        => /\ ~EnterStep.panic
           /\ Len(EnterStep.spawn) = 1
           /\ EnterStep.st.loading

\* C25 as stated: Enter in Normal mode dispatches one navigation and sets
\* loading when the active line is a Link and nothing is loading, and
\* otherwise dispatches nothing and leaves the state unchanged.
C25_EnterElseUnchanged ==
    /\ EnterOnLinkDispatches
    /\ (NormalAtLine /\ (ActiveLine.kind # "Link" \/ state.loading))
          => /\ ~EnterStep.panic
             /\ EnterStep.spawn = <<>>
             /\ EnterStep.send = <<>>
             /\ EnterStep.st = state

\* What Enter in Normal mode does do: one navigation and loading when the
\* active line is a Link and nothing is loading; otherwise it dispatches
\* nothing, draws nothing, and changes nothing of the state but the error
\* message, which it clears.
EnterClearsErrorOnly ==
    /\ EnterOnLinkDispatches
    /\ (NormalAtLine /\ ActiveLine.kind = "Link" /\ ~state.loading)
          => EnterStep.st = [state EXCEPT !.loading = TRUE, !.error_message = None]
    /\ (NormalAtLine /\ (ActiveLine.kind # "Link" \/ state.loading))
          => /\ ~EnterStep.panic
             /\ EnterStep.spawn = <<>>
             /\ EnterStep.send = <<>>
             /\ EnterStep.screen = screen
             /\ EnterStep.st = [state EXCEPT !.error_message = None]

\* Enter on a link has dispatched a navigation, and Enter is about to be
\* handled again, on the same link, while that navigation is loading
EnterWhileLoading ==
    /\ NormalAtLine
    /\ ActiveLine.kind = "Link"
    /\ state.loading
    /\ tasks # <<>>
    /\ tasks[Len(tasks)].url = Url_parse(ActiveLine.url).v
    /\ EnterStep.spawn = <<>>

\* The input loop is about to handle a key in the given mode
Handling(mode) == pcIn = "handle" /\ state.mode = mode

\* What handling `:` and Esc does in the current state
ColonStep == handle_key_event(Step(state, screen), KeyChar(":"), rx)
EscStep == handle_key_event(Step(state, screen), KeyEsc, rx)

\* C26: in Normal mode `:` switches the mode to Input; in Input mode Esc
\* returns the mode to Normal and empties the input buffer, dispatches no
\* navigation and commits no history entry.
C26_ColonInputEscNormal ==
    /\ Handling("Normal") => /\ ~ColonStep.panic
                             /\ ColonStep.st.mode = "Input"
    /\ Handling("Input") => /\ ~EscStep.panic
                            /\ EscStep.st.mode = "Normal"
                            /\ EscStep.st.input = <<>>
                            /\ EscStep.spawn = <<>>
                            /\ EscStep.send = <<>>
                            /\ EscStep.st.local_history = state.local_history
                            /\ EscStep.st.existing_history = state.existing_history

\* Esc is about to be handled with a command in the buffer that was
\* fetched from a history with a committed entry
C26_Witness ==
    /\ Handling("Input")
    /\ state.input # <<>>
    /\ state.history_index # None
    /\ state.local_history # <<>>
    /\ EscStep.st.input = <<>>
    /\ EscStep.st.mode = "Normal"

\* The target of a `go` command in the buffer
GoTarget == Drop(state.input, 3)

\* C27: Enter in Input mode with a non-empty buffer b dispatches exactly
\* one navigation to the target when b is "go " and a target, terminates
\* the session when b is "quit" or "q", and for every other b dispatches
\* nothing, sets the error message to "Invalid command: b" and returns the
\* mode to Normal.
C27_EnterRunsCommand ==
    (Handling("Input") /\ state.input # <<>>) =>
        IF StartsWith(state.input, <<"g", "o", SP>>)
        THEN /\ ~EnterStep.panic
             /\ Len(EnterStep.spawn) = 1
             /\ Url_parse(GoTarget).ok => EnterStep.spawn[1] = Url_parse(GoTarget).v
        ELSE IF state.input \in {<<"q", "u", "i", "t">>, <<"q">>}
        THEN /\ ~EnterStep.panic
             /\ EnterStep.st.terminated
             /\ EnterStep.spawn = <<>>
        ELSE /\ ~EnterStep.panic
             /\ EnterStep.spawn = <<>>
             /\ EnterStep.st.error_message = Some(<<"Invalid command: ">> \o state.input)
             /\ EnterStep.st.mode = "Normal"
             /\ ~EnterStep.st.terminated

\* The k-th most recent entry of the history, the empty string when there
\* is none
Recent(st, k) ==
    IF k \in 1..Len(History(st)) THEN History(st)[Len(History(st)) - k + 1] ELSE <<>>

\* The key is handled after x
Press(x, event) == handle_key_event(x, event, rx)

\* Up is handled k times in a row from the current state
RECURSIVE Ups(_)
Ups(k) == IF k = 0 THEN Step(state, screen) ELSE Press(Ups(k - 1), KeyUp)

\* Up is handled after x, after the `:` that opens the prompt again when x
\* left it
NextUp(x) ==
    Press(IF x.st.mode = "Normal" THEN Press(x, KeyChar(":")) ELSE x, KeyUp)

\* The index of the history has just been reset
IndexReset == Handling("Input") /\ state.history_index = None

\* The k-th Up in a row shows the k-th most recent entry
UpShowsRecent ==
    IndexReset =>
        \A k \in 1..Len(History(state)) :
            /\ ~Ups(k).panic
            /\ Ups(k).st.history_index = Some(k - 1)
            /\ Ups(k).st.input = Recent(state, k)

\* Enter on a command appends it to the session list and resets the
\* index, and the next Up of the session shows it
EnterCommits ==
    (Handling("Input") /\ state.input # <<>>) =>
        /\ EnterStep.st.local_history = Append(state.local_history, state.input)
        /\ EnterStep.st.existing_history = state.existing_history
        /\ EnterStep.st.history_index = None
        /\ (~EnterStep.panic /\ ~EnterStep.st.terminated)
               => NextUp(EnterStep).st.input = state.input

\* C28 as stated: with n entries in the history and the index just reset,
\* the k-th Up in a row (1 <= k <= n) puts the k-th most recent entry into
\* the buffer and a following Down puts the (k-1)-th most recent entry
\* back (none, the empty buffer, for k = 1); Enter appends the command to
\* the session list and resets the index, so that the next Up shows it.
C28_DownShowsPrevious ==
    /\ UpShowsRecent
    /\ EnterCommits
    /\ IndexReset =>
           \A k \in 1..Len(History(state)) :
               Press(Ups(k), KeyDown).st.input = Recent(state, k - 1)

\* C28: with n entries in the history and the index just reset, the k-th
\* Up in a row (1 <= k <= n) puts the k-th most recent entry into the
\* buffer; a following Down puts the (k-1)-th most recent entry back when
\* k >= 2 and changes nothing when k = 1; Enter appends the command to the
\* session list and resets the index, so that the next Up shows it.
C28_HistoryTraversal ==
    /\ UpShowsRecent
    /\ EnterCommits
    /\ IndexReset =>
           \A k \in 1..Len(History(state)) :
               /\ ~Press(Ups(k), KeyDown).panic
               /\ Press(Ups(k), KeyDown).st =
                      IF k = 1 THEN Ups(1).st
                      ELSE [Ups(k).st EXCEPT !.history_index = Some(k - 2),
                                             !.input = Recent(state, k - 1)]

\* After a command was committed the second Up in a row has shown the
\* second most recent entry, and Down is about to be handled
C28_Witness ==
    /\ Handling("Input")
    /\ state.local_history # <<>>
    /\ state.history_index = Some(1)
    /\ state.input = Recent(state, 2)
    /\ state.input # Recent(state, 1)
    /\ Press(Step(state, screen), KeyDown).st.input = Recent(state, 1)

\* The worker loop applies a TransactionComplete and goes on
CompleteApplied ==
    /\ pcW = "apply"
    /\ wEvent[1].type = "TransactionComplete"
    /\ pcW' = "recv"

\* Every key the user may press leaves no error message but the one of the
\* invalid command it enters
KeyClearsError ==
    pcIn = "handle" =>
        \A event \in Events(state) \ ({Mouse} \cup {Resize(sz[1], sz[2]) : sz \in ResizeSizes}) :
            \/ Press(Step(state, screen), event).panic
            \/ Press(Step(state, screen), event).st.error_message = None
            \/ /\ event = KeyEnter
               /\ state.mode = "Input"
               /\ Press(Step(state, screen), event).st.error_message
                      = Some(<<"Invalid command: ">> \o state.input)

\* C29: an error message does not outlive the next render-affecting
\* action: once a key event is handled, and once a TransactionComplete is
\* applied, no error message of an earlier failed navigation or invalid
\* command is set.
C29_ErrorClearedByRender ==
    [][KeyClearsError /\ (CompleteApplied => state'.error_message = None)]_vars

\* The worker loop receives TerminateWorker
TerminateConsumed ==
    /\ pcW = "recv"
    /\ chan # <<>>
    /\ recv(chan) = TerminateWorker
    /\ consumed' # consumed

\* The worker loop stops at the TerminateWorker it receives and leaves the
\* transaction threads as they are
WorkerStopsAtTerminate ==
    [][TerminateConsumed => (pcW' = "stopped" /\ tasks' = tasks)]_vars

\* C30: after the quit command the input loop handles no further terminal
\* event, and the worker loop applies the events queued before
\* TerminateWorker and comes to its end by consuming TerminateWorker, and
\* by nothing else.
C30_QuitStopsBothLoops ==
    state.terminated => /\ pcIn \notin {"read", "handle"}
                        /\ pcW # "panicked"

\* The document row at which the active line of a render begins
ActiveFirstRow ==
    RowsOf(call.arg.content, call.arg.current_line_index, call.arg.width) + 1

\* C31: a render returns the row, counted from the top of the visible
\* window, at which the active line begins, also when the active line
\* wraps to several rows and when scroll_offset > 0.
C31_ReturnsWindowRowOfActiveLine ==
    (Rendered /\ call.ret[1].current_row # None /\ ActiveFirstRow > call.arg.scroll_offset)
        => call.ret[1].current_row[1] = ActiveFirstRow - call.arg.scroll_offset

\* The buffer is a `go` command whose target is neither an absolute URL
\* that parses nor a relative reference
UnparseableTarget ==
    /\ StartsWith(state.input, <<"g", "o", SP>>)
    /\ ~Url_parse(GoTarget).ok
    /\ Url_parse(GoTarget).e # "RelativeUrlWithoutBase"

\* C32: a navigation request whose target is neither a parseable absolute
\* URL nor a relative path does not crash the session: no transaction is
\* spawned, an error message is set and the document is unchanged.
C32_UnparseableTargetIsAnError ==
    (Handling("Input") /\ UnparseableTarget)
        => /\ ~EnterStep.panic
           /\ EnterStep.spawn = <<>>
           /\ EnterStep.st.error_message # None
           /\ EnterStep.st.content = state.content
           /\ EnterStep.st.current_url = state.current_url

\* C33: in every reachable state the active-line index is an index of a
\* line of the current document (0 <= index < number of lines); down on
\* the last line does not move past it.
C33_ActiveLineIndexValid ==
    state.current_line_index < Len(content(state))

\* A document is displayed and the active line is one of its lines
DocumentDisplayed ==
    /\ state.current_url # None
    /\ state.current_line_index < Len(content(state))

\* C34: whenever a document is displayed the active line lies inside the
\* visible window: after any up and down moves and after every applied
\* TransactionComplete, scroll_offset is smaller than the row number of the
\* last row of the active line.
C34_ActiveLineInWindow ==
    DocumentDisplayed => state.scroll_offset < LastRowOf(state, state.current_line_index)

\* The URL of the last request of a transaction for url: the URL the
\* response that ends it comes from
RECURSIVE FetchedUrl(_, _)
FetchedUrl(url, redirect_count) ==
    IF transaction_call(url, redirect_count).do = "recurse"
    THEN FetchedUrl(transaction_call(url, redirect_count).url,
                    transaction_call(url, redirect_count).redirect_count)
    ELSE url

\* C35: after a TransactionComplete is applied the current URL is the URL
\* the displayed document was fetched from, also when the transaction
\* followed redirects.
C35_CurrentUrlIsFetchedUrl ==
    [][CompleteApplied
         => state'.current_url = Some(FetchedUrl(wEvent[1].url, 0))]_vars

\* C36: whenever the mode is Normal the input buffer is empty, also when a
\* TransactionComplete or a TransactionError is applied while the user is
\* typing a command.
C36_NormalModeEmptyBuffer ==
    state.mode = "Normal" => state.input = <<>>

\* The document, the current URL, the last status, the active-line index
\* and the scroll offset of a State
Frame(st) ==
    <<st.content, st.current_url, st.last_status_code, st.current_line_index,
      st.scroll_offset>>

\* In Input mode the characters of the navigation keys go into the buffer
NavigationCharsInserted ==
    Handling("Input") =>
        \A c \in {"j", "k", ":"} :
            /\ Frame(Press(Step(state, screen), KeyChar(c)).st) = Frame(state)
            /\ Press(Step(state, screen), KeyChar(c)).st.mode = "Input"
            /\ \/ Press(Step(state, screen), KeyChar(c)).panic
               \/ Press(Step(state, screen), KeyChar(c)).st.input = Append(state.input, c)

C38_HistoryIndexInRange ==
    /\ state.history_index # None => state.history_index[1] < Len(History(state))
    /\ (Handling("Input") /\ History(state) # <<>>
          /\ state.history_index = Some(Len(History(state)) - 1))
          => Press(Step(state, screen), KeyUp).st.input = Recent(state, Len(History(state)))
    /\ (Handling("Input") /\ state.history_index # None)
          => Press(Press(Step(state, screen), KeyUp), KeyDown).st.history_index
               = state.history_index

\* `k` is about to be handled where State::up takes the branch that
\* decrements scroll_offset
UpDecrements ==
    /\ Handling("Normal")
    /\ state.current_line_index > 0
    /\ state.current_row = 1

\* C39: scroll_offset never underflows: in no reachable state is up
\* executed with scroll_offset = 0 on the branch that decrements it.
C39_ScrollOffsetNoUnderflow ==
    UpDecrements => state.scroll_offset > 0

\* `k` is about to be handled on the second line of a displayed document
\* with scroll_offset 0, and moves the active line up
C39_Witness ==
    /\ Handling("Normal")
    /\ state.content # None
    /\ state.current_line_index = 1
    /\ state.scroll_offset = 0
    /\ ~Press(Step(state, screen), KeyChar("k")).panic
    /\ Press(Step(state, screen), KeyChar("k")).st.current_line_index = 0
    /\ Press(Step(state, screen), KeyChar("k")).st.scroll_offset = 0

\* A call of State::new_size has returned or panicked
Resized == call # None /\ call.fn = NewSize /\ call.ret # None

\* C40: for every terminal size with width >= 1 and height >= 1 the
\* unsigned arithmetic of rendering does not underflow: height - 1, the
\* position of the logo of the start page and the padding width - 5 of the
\* status line are not negative.
C40_RenderArithmeticNoUnderflow ==
    (Resized /\ call.arg.width >= 1 /\ call.arg.height >= 1) => ~call.ret[1].panic

\* The sizes at which the render of a resize does not underflow: at least
\* 5 columns and 1 row with a document, at least 76 columns and 12 rows on
\* the start page
RenderFits ==
    Resized =>
        (call.ret[1].panic <=>
            \/ call.arg.width < 5
            \/ call.arg.height < 1
            \/ call.arg.st.current_url = None
                 /\ (call.arg.width < 76 \/ call.arg.height < 12))
====
